---- MODULE Spec2Model ----
(***************************************************************************)
(* Model of the news acquisition engine: the descriptor-driven web scraper *)
(* (sources/web_news.py), the authenticated feed scraper with its login    *)
(* state machine (sources/linkedin.py) and the orchestrator (main.py).     *)
(*                                                                         *)
(* Python strings are sequences of one-character strings, so that          *)
(* startswith, "in" (substring), strip, lower, slicing and concatenation   *)
(* are computed as the code computes them.                                 *)
(***************************************************************************)
EXTENDS Integers, Sequences, FiniteSets, TLC

VARIABLES
    \* ---- scrape_web_source (sources/web_news.py) ----
    source_key,      \* argument source_key
    max_articles,    \* argument max_articles
    link_elements,   \* hrefs of the elements matched on the listing page, DOM order
    webPc,           \* position in scrape_web_source ("idle": not called)
    linkIdx,         \* number of link elements already walked by the for loop
    seen_urls,       \* set seen_urls
    article_links,   \* list article_links
    articles,        \* list articles (the result)
    visited,         \* history: the detail pages visited, in order
    webBrowser,      \* "none" | "open" | "closed"
    webOutcome,      \* "running" | "returned" | "raised"
    \* ---- scrape_linkedin_feed and login_linkedin (sources/linkedin.py) ----
    max_posts,       \* argument max_posts
    liPc,            \* position in scrape_linkedin_feed / login_linkedin
    pageUrl,         \* page.url
    landingUrl,      \* history: the URL the redirect check of line 114 read
    loginCalls,      \* history: number of calls of login_linkedin
    credsFilled,     \* history: email and password were typed into the form
    submitted,       \* history: the login form was submitted
    polls,           \* iterations of the challenge wait done so far
    logged_in,       \* result of login_linkedin: "unset" | "True" | "False"
    post_elements,   \* the feed items matched on the feed page, DOM order
    feedQueried,     \* history: the feed page was queried for posts
    itemsDone,       \* number of feed items already walked by the for loop
    posts,           \* list posts (the result)
    context,         \* persistent browser context: "none" | "open" | "closed"
    closeCalls,      \* history: number of calls of context.close()
    liOutcome,       \* "running" | "returned" | "raised"
    profileDir,      \* BROWSER_PROFILE_PATH on disk: "missing" | "present"
    \* ---- run_newsbot (main.py) ----
    api_key_ok,      \* config: the OpenRouter key is set
    sources_config,  \* config: per source "absent" | "disabled" | "enabled"
    subreddits,      \* config: sources.reddit.subreddits
    email_set,       \* config: sources.linkedin.email is non-empty
    password_set,    \* config: sources.linkedin.password is non-empty
    source_keys,     \* config: sources.web_sources.sources
    runPc,           \* the section run_newsbot is in
    callIdx,         \* position of the loop over subreddits / source_keys
    records,         \* number of records the scraper calls of each source returned
    scraperCalls,    \* history: the source of every scraper call, in order
    formatCalls,     \* history: <<source, number of records>> of every formatter call
    summarizeCalls,  \* history: the source of every summarize_posts call
    summaries,       \* keys of the dict summaries, in insertion order
    combinedCalls,   \* history: number of calls of create_combined_summary
    reportWritten,   \* history: save_report was called
    runOutcome,      \* "running" | "returned" | "raised" | "exit"
    awaiting,        \* the source whose scraper call run_newsbot awaits, or "none"
    browsers,        \* the sources whose scraper holds an open browser or context
    \* ---- content extraction of one detail page (web_news.py, theneuron.py) ----
    selChain,        \* the alternatives of the content selector chain, in order
    selDom,          \* the paragraphs of the page in document order
    selPc,           \* "idle" | "web" | "neuron" | "joined"
    selIdx,          \* theneuron: selectors of the list tried so far
    content_parts,   \* list content_parts
    page_content,    \* the joined content
    \* ---- scrape_subreddit (reddit.py) ----
    redditMaxPosts,  \* argument max_posts
    things,          \* the div.thing.link elements of the listing, in DOM order
    redditPc,        \* "idle" | "start" | "goto" | "things" | "close" | "done"
    thingsDone,      \* elements of things[:max_posts] the loop has finished
    redditPosts,     \* list posts
    redditBrowser,   \* "none" | "open" | "closed"
    redditOutcome,   \* "running" | "returned" | "raised"
    \* ---- the formatters of the source adapters ----
    fmtFn,           \* the adapter whose formatter is called
    fmtRecords,      \* argument: the list of records
    source_name,     \* argument source_name of format_articles_for_llm
    fmtPc,           \* "idle" | "call" | "returned"
    fmtOut,          \* the string returned
    \* ---- create_executive_briefing (llm/summarizer.py) ----
    all_news,        \* argument: the formatted blocks, in the order of the dict
    news_context,    \* the sources whose block went into the prompt
    total_items,     \* the estimate of the number of items
    briefPc,         \* "idle" | "prompt" | "post" | "status" | "json" | "returned"
    remote,          \* what client.post did: a response or an exception
    caught,          \* history: the exception raised inside the try block, if any
    briefResult,     \* [raised, value]: the string returned, or an exception escaped
    \* ---- one iteration of the article loop of scrape_web_source ----
    artKey,          \* source_key of the call
    artPage,         \* the detail page the browser loaded
    artPc,           \* "idle" | "loaded" | "done"
    artParts,        \* list content_parts
    artOut,          \* the records the iteration appended to articles
    \* ---- scrape_futurism (sources/futurism.py), link discovery ----
    futMax,          \* argument max_articles
    cards,           \* hrefs of the matched cards, in DOM order
    futPc,           \* "idle" | "collect" | "visit" | "done"
    cardIdx,         \* number of cards already walked by the for loop
    futSeen,         \* set seen_urls
    futLinks,        \* list article_links
    futVisited       \* history: the URLs page.goto was called with, in order

webVars == <<source_key, max_articles, link_elements, webPc, linkIdx, seen_urls,
             article_links, articles, visited, webBrowser, webOutcome>>

liVars == <<max_posts, liPc, pageUrl, landingUrl, loginCalls, credsFilled, submitted,
            polls, logged_in, post_elements, feedQueried, itemsDone, posts, context,
            closeCalls, liOutcome, profileDir>>

runVars == <<api_key_ok, sources_config, subreddits, email_set, password_set,
             source_keys, runPc, callIdx, records, scraperCalls, formatCalls,
             summarizeCalls, summaries, combinedCalls, reportWritten, runOutcome,
             awaiting, browsers>>

selVars == <<selChain, selDom, selPc, selIdx, content_parts, page_content>>

redditVars == <<redditMaxPosts, things, redditPc, thingsDone, redditPosts,
                redditBrowser, redditOutcome>>

fmtVars == <<fmtFn, fmtRecords, source_name, fmtPc, fmtOut>>

briefVars == <<all_news, news_context, total_items, briefPc, remote, caught,
               briefResult>>

articleVars == <<artKey, artPage, artPc, artParts, artOut>>

futVars == <<futMax, cards, futPc, cardIdx, futSeen, futLinks, futVisited>>

auxVars == <<selVars, redditVars, fmtVars, briefVars, articleVars, futVars>>

\* the variables of the other stand-alone functions
notSel == <<redditVars, fmtVars, briefVars, articleVars, futVars>>
notReddit == <<selVars, fmtVars, briefVars, articleVars, futVars>>
notFmt == <<selVars, redditVars, briefVars, articleVars, futVars>>
notBrief == <<selVars, redditVars, fmtVars, articleVars, futVars>>
notArticle == <<selVars, redditVars, fmtVars, briefVars, futVars>>
notFut == <<selVars, redditVars, fmtVars, briefVars, articleVars>>

vars == <<webVars, liVars, runVars, auxVars>>

----------------------------------------------------------------------------
(* Bounds of the model *)

MaxListing == 3      \* longest listing page enumerated for link discovery
MaxItems == 3        \* longest listing page enumerated when articles are visited
MaxBudget == 3       \* largest enumerated item budget (max_articles, max_posts)
MaxFeed == 3         \* longest feed page enumerated
MaxSubreddits == 2   \* longest list of subreddits enumerated
MaxSourceKeys == 2   \* longest list of web source keys enumerated
MaxRecords == 1      \* most records one scraper call returns to run_newsbot
MaxDom == 2          \* most paragraphs of a detail page enumerated
MaxThings == 3       \* longest subreddit listing enumerated
MaxFormatted == 3    \* longest record list handed to a formatter
MaxNews == 2         \* most sources handed to create_executive_briefing
MaxParas == 2        \* most content paragraphs of an enumerated detail page
MaxCards == 3        \* longest Futurism listing enumerated

----------------------------------------------------------------------------
(* Python values *)

\* Optional value: None, or a string
PyNone == [some |-> FALSE, val |-> <<>>]
Some(s) == [some |-> TRUE, val |-> s]

\* Python truthiness of an optional string: None and "" are falsy
Truthy(o) == o.some /\ o.val # <<>>

\* s.startswith(p)
StartsWith(s, p) == Len(s) >= Len(p) /\ SubSeq(s, 1, Len(p)) = p

\* p in s (substring)
Contains(s, p) == \E i \in 0..(Len(s) - Len(p)) : SubSeq(s, i + 1, i + Len(p)) = p

\* s[:n]
Take(s, n) == SubSeq(s, 1, IF Len(s) < n THEN Len(s) ELSE n)

\* characters str.strip() removes
Whitespace == {" ", "\n", "\t"}

RECURSIVE LStrip(_)
LStrip(s) == IF s # <<>> /\ Head(s) \in Whitespace THEN LStrip(Tail(s)) ELSE s

RECURSIVE RStrip(_)
RStrip(s) ==
    IF s # <<>> /\ s[Len(s)] \in Whitespace THEN RStrip(SubSeq(s, 1, Len(s) - 1)) ELSE s

\* s.strip()
Strip(s) == RStrip(LStrip(s))

\* index of the first occurrence of p in s at or after position from, 0 when none
FindFrom(s, p, from) ==
    LET hits == {i \in from..(Len(s) - Len(p) + 1) : SubSeq(s, i, i + Len(p) - 1) = p}
    IN IF hits = {} THEN 0 ELSE CHOOSE i \in hits : \A j \in hits : i <= j

\* urlparse(url).scheme: the characters before "://"
UrlScheme(url) ==
    LET k == FindFrom(url, <<":","/","/">>, 1)
    IN IF k = 0 THEN <<>> ELSE SubSeq(url, 1, k - 1)

\* urlparse(url).netloc: the characters after "://" up to the next "/"
UrlNetloc(url) ==
    LET k == FindFrom(url, <<":","/","/">>, 1)
        e == IF k = 0 THEN 0 ELSE FindFrom(url, <<"/">>, k + 3)
    IN IF k = 0 THEN <<>>
       ELSE IF e = 0 THEN SubSeq(url, k + 3, Len(url))
       ELSE SubSeq(url, k + 3, e - 1)

\* f"{parsed.scheme}://{parsed.netloc}"
Origin(url) == UrlScheme(url) \o <<":","/","/">> \o UrlNetloc(url)

\* a string of n characters c
Rep(c, n) == [i \in 1..n |-> c]

----------------------------------------------------------------------------
(* Detail pages the browser may show: whether loading or querying the page raises,
   the inner text of the first title and author match (None when nothing matches)
   and the inner texts of the content matches *)

Page(raises, title, author, content) ==
    [raises |-> raises, title_elem |-> title, author_elem |-> author,
     content_elems |-> content]

GoodTitle == Some(<<"H","i">>)
GoodPara == Rep("x", 31)
BlankPara == Rep(" ", 31)

PageRaises == Page(TRUE, PyNone, PyNone, <<>>)
PageGood == Page(FALSE, GoodTitle, PyNone, <<GoodPara>>)
PageNoTitleElem == Page(FALSE, PyNone, PyNone, <<GoodPara>>)
PageEmptyTitle == Page(FALSE, Some(<<>>), PyNone, <<GoodPara>>)
PageBlankTitle == Page(FALSE, Some(<<" ">>), PyNone, <<GoodPara>>)
PageNoContent == Page(FALSE, GoodTitle, PyNone, <<>>)
PageBlankPara == Page(FALSE, GoodTitle, PyNone, <<BlankPara>>)
PageTwoBlankParas == Page(FALSE, GoodTitle, PyNone, <<BlankPara, BlankPara>>)

PagePool ==
    { PageRaises, PageGood, PageNoTitleElem, PageEmptyTitle, PageBlankTitle,
      PageNoContent, PageBlankPara, PageTwoBlankParas }

----------------------------------------------------------------------------
(* Feed items the feed page may show: whether reading the item raises, the inner
   text of its body element (None when no body element matches) and its data-urn
   attribute *)

Item(raises, content, urn) == [raises |-> raises, content_elem |-> content, urn |-> urn]

ActivityUrn == Some(<<"u","r","n",":","l","i",":","a","c","t","i","v","i","t","y",":","1">>)

ItemRaises == Item(TRUE, PyNone, PyNone)
ItemGood == Item(FALSE, Some(<<"h","i">>), ActivityUrn)
ItemNoBody == Item(FALSE, PyNone, ActivityUrn)
ItemBlank == Item(FALSE, Some(<<" "," ">>), ActivityUrn)
ItemNoUrn == Item(FALSE, Some(<<" ","h","i"," ">>), PyNone)
ItemLong == Item(FALSE, Some(<<" ">> \o Rep("x", 501)), ActivityUrn)

ItemPool == {ItemRaises, ItemGood, ItemNoBody, ItemBlank, ItemNoUrn, ItemLong}

SeqsUpTo(S, n) == UNION {[1..k -> S] : k \in 0..n}

Feeds == SeqsUpTo(ItemPool, MaxFeed)

----------------------------------------------------------------------------
(* sources/web_news.py: SITE_CONFIGS *)

SITE_CONFIGS ==
    [theverge |->
        [name |-> <<"T","h","e"," ","V","e","r","g","e">>,
         base_url |-> <<"h","t","t","p","s",":","/","/","w","w","w",".","t","h","e","v","e","r","g","e",".","c","o","m","/","a","i","-","a","r","t","i","f","i","c","i","a","l","-","i","n","t","e","l","l","i","g","e","n","c","e">>,
         exclude_patterns |-> << <<"/","a","u","t","h","o","r","s","/">>,
                                 <<"/","a","r","c","h","i","v","e","s","/">>,
                                 <<"/","a","b","o","u","t","/">>,
                                 <<"/","r","e","v","i","e","w","s","/">> >>],
     techcrunch |->
        [name |-> <<"T","e","c","h","C","r","u","n","c","h">>,
         base_url |-> <<"h","t","t","p","s",":","/","/","t","e","c","h","c","r","u","n","c","h",".","c","o","m","/","t","a","g","/","a","r","t","i","f","i","c","i","a","l","-","i","n","t","e","l","l","i","g","e","n","c","e","/">>,
         exclude_patterns |-> << <<"/","a","u","t","h","o","r","/">>,
                                 <<"/","t","a","g","/">>,
                                 <<"/","c","a","t","e","g","o","r","y","/">>,
                                 <<"/","e","v","e","n","t","/">> >>],
     mit_news |->
        [name |-> <<"M","I","T"," ","N","e","w","s">>,
         base_url |-> <<"h","t","t","p","s",":","/","/","n","e","w","s",".","m","i","t",".","e","d","u","/","t","o","p","i","c","/","a","r","t","i","f","i","c","i","a","l","-","i","n","t","e","l","l","i","g","e","n","c","e","2">>,
         exclude_patterns |-> << <<"/","t","o","p","i","c","/">>,
                                 <<"/","o","f","f","i","c","e","/">> >>],
     ai_news |->
        [name |-> <<"A","I"," ","N","e","w","s">>,
         base_url |-> <<"h","t","t","p","s",":","/","/","w","w","w",".","a","r","t","i","f","i","c","i","a","l","i","n","t","e","l","l","i","g","e","n","c","e","-","n","e","w","s",".","c","o","m","/">>,
         exclude_patterns |-> << <<"/","c","a","t","e","g","o","r","i","e","s","/">>,
                                 <<"/","t","a","g","/">>,
                                 <<"/","p","a","g","e","/">>,
                                 <<"/","a","u","t","h","o","r","/">>,
                                 <<"/","v","i","d","e","o","s">> >>],
     deutsche_startups |->
        [name |-> <<"D","e","u","t","s","c","h","e"," ","S","t","a","r","t","u","p","s">>,
         base_url |-> <<"h","t","t","p","s",":","/","/","w","w","w",".","d","e","u","t","s","c","h","e","-","s","t","a","r","t","u","p","s",".","d","e","/">>,
         exclude_patterns |-> << <<"/","t","a","g","/">>,
                                 <<"/","k","a","t","e","g","o","r","i","e","/">>,
                                 <<"/","p","a","g","e","/">> >>]]

\* The descriptor of the specification's worked link-discovery scenario
\* (exclude patterns "/tag/" and "/author/"), registered under the key "scenario".
ScenarioConfig ==
    [name |-> <<"T","e","s","t">>,
     base_url |-> <<"h","t","t","p","s",":","/","/","s","/","l","i","s","t">>,
     exclude_patterns |-> << <<"/","t","a","g","/">>, <<"/","a","u","t","h","o","r","/">> >>]

\* The registry the scraper looks source_key up in
Registry == SITE_CONFIGS @@ ("scenario" :> ScenarioConfig)

\* config = SITE_CONFIGS[source_key]
config == Registry[source_key]

\* default of the max_articles parameter
DefaultMaxArticles == 5

----------------------------------------------------------------------------
(* sources/web_news.py: scrape_web_source, link discovery (lines 96-126) *)

\* mutant of ResolveHref: the href is kept as written
ResolveHref_Unresolved(cfg, href) == href

\* lines 106-110: an href that starts with "/" is put behind the origin of base_url
ResolveHref(cfg, href) ==
    IF StartsWith(href, <<"/">>) THEN Origin(cfg.base_url) \o href ELSE href

\* mutant of MatchesExclude: only the first pattern is tried
MatchesExclude_FirstOnly(cfg, href) ==
    cfg.exclude_patterns # <<>> /\ Contains(href, cfg.exclude_patterns[1])

\* lines 116-120: some exclude pattern is a substring of href
MatchesExclude(cfg, href) ==
    \E k \in 1..Len(cfg.exclude_patterns) : Contains(href, cfg.exclude_patterns[k])

\* line 76: unknown source: return [] before any browser is launched
WebUnknownSource ==
    /\ webPc = "start"
    /\ source_key \notin DOMAIN Registry
    /\ webPc' = "done"
    /\ webOutcome' = "returned"
    /\ UNCHANGED <<source_key, max_articles, link_elements, linkIdx, seen_urls,
                   article_links, articles, visited, webBrowser>>
    /\ UNCHANGED <<liVars, runVars, auxVars>>

\* lines 83-88: launch the browser; a launch failure is raised outside the try
WebLaunch ==
    /\ webPc = "start"
    /\ source_key \in DOMAIN Registry
    /\ \E ok \in BOOLEAN :
          IF ok
          THEN /\ webPc' = "goto"
               /\ webBrowser' = "open"
               /\ webOutcome' = webOutcome
          ELSE /\ webPc' = "done"
               /\ webBrowser' = webBrowser
               /\ webOutcome' = "raised"
    /\ UNCHANGED <<source_key, max_articles, link_elements, linkIdx, seen_urls,
                   article_links, articles, visited>>
    /\ UNCHANGED <<liVars, runVars, auxVars>>

\* mutant of WebOuterExcept: the exception is not caught
WebOuterExcept_Reraise == "reraise"

\* lines 171-174: the outer except prints the failure; control goes to finally
WebOuterExcept == "close"

\* lines 92-99: load the listing page and query the link elements; a failure is
\* caught by the outer except (line 171) and leads to the finally block
WebGotoListing ==
    /\ webPc = "goto"
    /\ \E ok \in BOOLEAN :
          IF ok
          THEN /\ webPc' = "collect"
               /\ linkIdx' = 0
               /\ seen_urls' = {}
               /\ article_links' = <<>>
          ELSE /\ webPc' = WebOuterExcept
               /\ UNCHANGED <<linkIdx, seen_urls, article_links>>
    /\ UNCHANGED <<source_key, max_articles, link_elements, articles, visited,
                   webBrowser, webOutcome>>
    /\ UNCHANGED <<liVars, runVars, auxVars>>

\* lines 100-126: one iteration of the loop over link_elements
WebCollectStep ==
    /\ webPc = "collect"
    /\ linkIdx < Len(link_elements)
    /\ linkIdx' = linkIdx + 1
    /\ LET elem == link_elements[linkIdx + 1]
           href == IF Truthy(elem) THEN ResolveHref(config, elem.val) ELSE <<>>
       IN IF ~Truthy(elem)
          THEN UNCHANGED <<seen_urls, article_links, webPc>>          \* line 102
          ELSE IF href \in seen_urls
          THEN UNCHANGED <<seen_urls, article_links, webPc>>          \* line 113
          ELSE IF MatchesExclude(config, href)
          THEN UNCHANGED <<seen_urls, article_links, webPc>>          \* lines 116-122
          ELSE /\ seen_urls' = seen_urls \cup {href}
               /\ article_links' = Append(article_links, href)
               /\ webPc' = IF Len(article_links) + 1 >= max_articles  \* line 125
                           THEN "visit" ELSE "collect"
    /\ UNCHANGED <<source_key, max_articles, link_elements, articles, visited,
                   webBrowser, webOutcome>>
    /\ UNCHANGED <<liVars, runVars, auxVars>>

\* the loop over link_elements is exhausted
WebCollectEnd ==
    /\ webPc = "collect"
    /\ linkIdx = Len(link_elements)
    /\ webPc' = "visit"
    /\ UNCHANGED <<source_key, max_articles, link_elements, linkIdx, seen_urls,
                   article_links, articles, visited, webBrowser, webOutcome>>
    /\ UNCHANGED <<liVars, runVars, auxVars>>

----------------------------------------------------------------------------
(* sources/web_news.py: scrape_web_source, article extraction (lines 129-176) *)

MaxParagraphs == 12       \* content_elems[:12]
MinFragmentLen == 30      \* len(text) > 30
MaxAuthorLen == 100       \* len(author_text) < 100
ExcerptLen == 300         \* content[:300]
MaxContentLen == 2000     \* content[:2000]

\* "\n\n".join(parts)
RECURSIVE JoinParts(_)
JoinParts(parts) ==
    IF parts = <<>> THEN <<>>
    ELSE IF Len(parts) = 1 THEN parts[1]
    ELSE parts[1] \o <<"\n","\n">> \o JoinParts(Tail(parts))

\* line 136: inner text of the first title match, or the placeholder
PageTitle(page) ==
    IF page.title_elem.some THEN page.title_elem.val
    ELSE <<"K","e","i","n"," ","T","i","t","e","l">>

\* lines 139-144: the author text when present, non-empty and short, else the name
PageAuthor(cfg, page) ==
    IF /\ page.author_elem.some
       /\ page.author_elem.val # <<>>
       /\ Len(page.author_elem.val) < MaxAuthorLen
    THEN Strip(page.author_elem.val)
    ELSE cfg.name

\* lines 147-152: the stripped texts of the first 12 elements longer than 30
ContentParts(page) ==
    LET elems == Take(page.content_elems, MaxParagraphs)
        long == SelectSeq(elems, LAMBDA text : text # <<>> /\ Len(text) > MinFragmentLen)
    IN [k \in 1..Len(long) |-> Strip(long[k])]

\* lines 134-165: the records one loaded detail page appends (none or one)
ExtractArticle(cfg, url, page) ==
    LET title == PageTitle(page)
        content == JoinParts(ContentParts(page))
        excerpt == IF Len(content) > ExcerptLen
                   THEN Take(content, ExcerptLen) \o <<".",".",".">> ELSE content
    IN IF title # <<>> /\ content # <<>>                                \* line 157
       THEN << [title |-> Strip(title), author |-> PageAuthor(cfg, page),
                excerpt |-> excerpt, content |-> Take(content, MaxContentLen),
                url |-> url, source |-> cfg.name] >>
       ELSE <<>>

\* mutant of WebItemExcept: the exception of one article ends the whole loop
WebItemExcept_Abort == "close"

\* lines 167-169: the exception of one article is caught inside the loop, which
\* goes on with the next url
WebItemExcept == "visit"

\* lines 129-169: one iteration of the loop over article_links[:max_articles]
WebVisit ==
    /\ webPc = "visit"
    /\ Len(visited) < Len(Take(article_links, max_articles))
    /\ \E page \in PagePool :
          /\ visited' = Append(visited, page)
          /\ IF page.raises
             THEN /\ articles' = articles
                  /\ webPc' = WebItemExcept
             ELSE /\ articles' = articles \o
                        ExtractArticle(config, article_links[Len(visited) + 1], page)
                  /\ webPc' = "visit"
    /\ UNCHANGED <<source_key, max_articles, link_elements, linkIdx, seen_urls,
                   article_links, webBrowser, webOutcome>>
    /\ UNCHANGED <<liVars, runVars, auxVars>>

\* the loop over article_links[:max_articles] is exhausted
WebVisitEnd ==
    /\ webPc = "visit"
    /\ Len(visited) = Len(Take(article_links, max_articles))
    /\ webPc' = "close"
    /\ UNCHANGED <<source_key, max_articles, link_elements, linkIdx, seen_urls,
                   article_links, articles, visited, webBrowser, webOutcome>>
    /\ UNCHANGED <<liVars, runVars, auxVars>>

\* lines 173-176: finally browser.close(), then return articles
WebClose ==
    /\ webPc = "close"
    /\ webBrowser' = "closed"
    /\ webPc' = "done"
    /\ webOutcome' = "returned"
    /\ UNCHANGED <<source_key, max_articles, link_elements, linkIdx, seen_urls,
                   article_links, articles, visited>>
    /\ UNCHANGED <<liVars, runVars, auxVars>>


----------------------------------------------------------------------------
(* sources/linkedin.py: login_linkedin and scrape_linkedin_feed *)

ChallengePolls == 60      \* for i in range(60)
MaxPostContent == 500     \* content.strip()[:500]

UpperCase == <<"A","B","C","D","E","F","G","H","I","J","K","L","M","N","O","P","Q","R","S","T","U","V","W","X","Y","Z">>
LowerCase == <<"a","b","c","d","e","f","g","h","i","j","k","l","m","n","o","p","q","r","s","t","u","v","w","x","y","z">>

\* str.lower()
Lower(s) ==
    [i \in 1..Len(s) |->
        IF \E k \in 1..26 : UpperCase[k] = s[i]
        THEN LowerCase[CHOOSE k \in 1..26 : UpperCase[k] = s[i]]
        ELSE s[i]]

LinkedIn == <<"h","t","t","p","s",":","/","/","w","w","w",".","l","i","n","k","e","d","i","n",".","c","o","m">>

\* URLs the browser may be on
FeedUrl == LinkedIn \o <<"/","f","e","e","d","/">>
LoginUrl == LinkedIn \o <<"/","l","o","g","i","n">>
AuthwallUrl == LinkedIn \o <<"/","a","u","t","h","w","a","l","l">>
UpperLoginUrl == LinkedIn \o <<"/","u","a","s","/","L","o","g","i","n">>
ChallengeUrl == LinkedIn \o <<"/","c","h","e","c","k","p","o","i","n","t","/","l","g","/","v","e","r","i","f","y">>
ChallengeNextFeedUrl == LinkedIn \o <<"/","c","h","e","c","k","p","o","i","n","t","/","c","h","a","l","l","e","n","g","e","?","n","e","x","t","=","f","e","e","d">>
ErrorUrl == LinkedIn \o <<"/","e","r","r","o","r">>

\* where the navigation to the feed may end (line 100)
LandingUrls == {FeedUrl, LoginUrl, AuthwallUrl, UpperLoginUrl}
\* where the browser may be when wait_for_url returns or times out (line 46)
AfterSubmitUrls == {FeedUrl, LoginUrl, ChallengeUrl, ChallengeNextFeedUrl, ErrorUrl}
\* where the browser may be after one second of the challenge wait (line 57)
PollUrls == {FeedUrl, ChallengeUrl, ChallengeNextFeedUrl, ErrorUrl}

PyBool(b) == IF b THEN "True" ELSE "False"

\* mutant of IsLoginUrl: every landing page is taken for a login page
IsLoginUrl_Always(url) == TRUE

\* line 114: "login" in page.url.lower() or "authwall" in page.url.lower()
IsLoginUrl(url) ==
    \/ Contains(Lower(url), <<"l","o","g","i","n">>)
    \/ Contains(Lower(url), <<"a","u","t","h","w","a","l","l">>)

\* line 46: the glob "**/feed/**" of wait_for_url
MatchesFeedGlob(url) == Contains(url, <<"/","f","e","e","d","/">>)

\* line 51: "checkpoint" in url or "security" in url or "challenge" in url
IsChallengeUrl(url) ==
    \/ Contains(url, <<"c","h","e","c","k","p","o","i","n","t">>)
    \/ Contains(url, <<"s","e","c","u","r","i","t","y">>)
    \/ Contains(url, <<"c","h","a","l","l","e","n","g","e">>)

\* lines 58 and 61: "feed" in page.url
HasFeed(url) == Contains(url, <<"f","e","e","d">>)

\* lines 76-96: mkdir(exist_ok=True) creates the profile directory when it is
\* missing, then the persistent context is opened on it; a failure of either is
\* raised outside the try
LiLaunch ==
    /\ liPc = "start"
    /\ \/ /\ profileDir' = "present"                       \* line 77
          /\ \E ok \in BOOLEAN :
                IF ok
                THEN /\ liPc' = "goto_feed"                  \* lines 81-96
                     /\ context' = "open"
                     /\ liOutcome' = liOutcome
                ELSE /\ liPc' = "done"
                     /\ context' = context
                     /\ liOutcome' = "raised"
       \/ /\ profileDir = "missing"                          \* mkdir raises
          /\ profileDir' = profileDir
          /\ liPc' = "done"
          /\ context' = context
          /\ liOutcome' = "raised"
    /\ UNCHANGED <<max_posts, pageUrl, landingUrl, loginCalls, credsFilled, submitted,
                   polls, logged_in, post_elements, feedQueried, itemsDone, posts,
                   closeCalls>>
    /\ UNCHANGED <<webVars, runVars, auxVars>>

\* lines 100-111: navigate to the feed (the cookie banner block swallows its own
\* errors); a navigation failure goes to the outer except (line 213)
LiGotoFeed ==
    /\ liPc = "goto_feed"
    /\ \/ \E u \in LandingUrls :
             /\ pageUrl' = u
             /\ liPc' = "check_login"
       \/ /\ liPc' = "close"
          /\ pageUrl' = pageUrl
    /\ UNCHANGED <<max_posts, profileDir, landingUrl, loginCalls, credsFilled, submitted, polls,
                   logged_in, post_elements, feedQueried, itemsDone, posts, context,
                   closeCalls, liOutcome>>
    /\ UNCHANGED <<webVars, runVars, auxVars>>

\* lines 114-122: the redirect check that decides between login and session reuse
LiCheckLogin ==
    /\ liPc = "check_login"
    /\ landingUrl' = Some(pageUrl)
    /\ IF IsLoginUrl(pageUrl)
       THEN /\ loginCalls' = loginCalls + 1          \* line 116
            /\ liPc' = "login_goto"
       ELSE /\ loginCalls' = loginCalls              \* line 122
            /\ liPc' = "feed"
    /\ UNCHANGED <<max_posts, profileDir, pageUrl, credsFilled, submitted, polls, logged_in,
                   post_elements, feedQueried, itemsDone, posts, context, closeCalls,
                   liOutcome>>
    /\ UNCHANGED <<webVars, runVars, auxVars>>

\* lines 64-66: any exception inside login_linkedin makes it return False
LoginRaise ==
    /\ logged_in' = "False"
    /\ liPc' = "login_ret"

\* line 30: page.goto of the login page
LoginGoto ==
    /\ liPc = "login_goto"
    /\ \/ /\ pageUrl' = LoginUrl
          /\ liPc' = "login_form"
          /\ logged_in' = logged_in
       \/ /\ LoginRaise
          /\ pageUrl' = pageUrl
    /\ UNCHANGED <<max_posts, profileDir, landingUrl, loginCalls, credsFilled, submitted, polls,
                   post_elements, feedQueried, itemsDone, posts, context, closeCalls,
                   liOutcome>>
    /\ UNCHANGED <<webVars, runVars, auxVars>>

\* line 33: wait for the login form; a timeout is an exception
LoginForm ==
    /\ liPc = "login_form"
    /\ \/ /\ liPc' = "login_fill"
          /\ logged_in' = logged_in
       \/ LoginRaise
    /\ UNCHANGED <<max_posts, profileDir, pageUrl, landingUrl, loginCalls, credsFilled, submitted,
                   polls, post_elements, feedQueried, itemsDone, posts, context,
                   closeCalls, liOutcome>>
    /\ UNCHANGED <<webVars, runVars, auxVars>>

\* lines 36-39: fill in email and password
LoginFill ==
    /\ liPc = "login_fill"
    /\ \/ /\ credsFilled' = TRUE
          /\ liPc' = "login_submit"
          /\ logged_in' = logged_in
       \/ /\ LoginRaise
          /\ \E typed \in BOOLEAN : credsFilled' = typed   \* the email may be in
    /\ UNCHANGED <<max_posts, profileDir, pageUrl, landingUrl, loginCalls, submitted, polls,
                   post_elements, feedQueried, itemsDone, posts, context, closeCalls,
                   liOutcome>>
    /\ UNCHANGED <<webVars, runVars, auxVars>>

\* line 42: click the submit button
LoginSubmit ==
    /\ liPc = "login_submit"
    /\ \/ /\ submitted' = TRUE
          /\ liPc' = "login_wait"
          /\ logged_in' = logged_in
       \/ /\ LoginRaise
          /\ submitted' = submitted
    /\ UNCHANGED <<max_posts, profileDir, pageUrl, landingUrl, loginCalls, credsFilled, polls,
                   post_elements, feedQueried, itemsDone, posts, context, closeCalls,
                   liOutcome>>
    /\ UNCHANGED <<webVars, runVars, auxVars>>

\* lines 45-62: wait_for_url returns when the feed is reached within the timeout;
\* when it raises, the current URL decides between the challenge wait and False
LoginWait ==
    /\ liPc = "login_wait"
    /\ \E u \in AfterSubmitUrls, reached \in BOOLEAN :
          /\ reached => MatchesFeedGlob(u)
          /\ pageUrl' = u
          /\ IF reached
             THEN /\ logged_in' = "True"                         \* line 47
                  /\ liPc' = "login_ret"
                  /\ polls' = polls
             ELSE IF IsChallengeUrl(u)
             THEN /\ logged_in' = logged_in                      \* line 51
                  /\ liPc' = "challenge"
                  /\ polls' = 0
             ELSE /\ logged_in' = "False"                        \* line 62
                  /\ liPc' = "login_ret"
                  /\ polls' = polls
    /\ UNCHANGED <<max_posts, profileDir, landingUrl, loginCalls, credsFilled, submitted,
                   post_elements, feedQueried, itemsDone, posts, context, closeCalls,
                   liOutcome>>
    /\ UNCHANGED <<webVars, runVars, auxVars>>

\* lines 56-60: one iteration of the challenge wait: sleep one second, during which
\* the browser may navigate, then look at the URL
ChallengePoll ==
    /\ liPc = "challenge"
    /\ polls < ChallengePolls
    /\ \E u \in PollUrls :
          /\ pageUrl' = u
          /\ polls' = polls + 1
          /\ IF HasFeed(u)
             THEN /\ logged_in' = "True"
                  /\ liPc' = "login_ret"
             ELSE /\ logged_in' = logged_in
                  /\ liPc' = "challenge"
    /\ UNCHANGED <<max_posts, profileDir, landingUrl, loginCalls, credsFilled, submitted,
                   post_elements, feedQueried, itemsDone, posts, context, closeCalls,
                   liOutcome>>
    /\ UNCHANGED <<webVars, runVars, auxVars>>

\* mutant of ChallengeVerdict: the wait that ran out counts as a success
ChallengeVerdict_True(url) == "True"

\* line 61: return "feed" in page.url. No await lies between the last check of the
\* loop and this one, so it reads the URL the last check read.
ChallengeVerdict(url) == PyBool(HasFeed(url))

\* line 61: the loop has run ChallengePolls times
ChallengeExhausted ==
    /\ liPc = "challenge"
    /\ polls = ChallengePolls
    /\ logged_in' = ChallengeVerdict(pageUrl)
    /\ liPc' = "login_ret"
    /\ UNCHANGED <<max_posts, profileDir, pageUrl, landingUrl, loginCalls, credsFilled, submitted,
                   polls, post_elements, feedQueried, itemsDone, posts, context,
                   closeCalls, liOutcome>>
    /\ UNCHANGED <<webVars, runVars, auxVars>>

\* mutant of AfterLogin: the result of login_linkedin is ignored
AfterLogin_Ignored(result) == "feed"

\* lines 116-120: where scrape_linkedin_feed goes on after login_linkedin returned
AfterLogin(result) == IF result = "False" THEN "login_failed" ELSE "feed"

\* line 116: login_linkedin returns to its caller; its locals are gone
LoginReturn ==
    /\ liPc = "login_ret"
    /\ liPc' = AfterLogin(logged_in)
    /\ polls' = 0
    /\ UNCHANGED <<max_posts, profileDir, pageUrl, landingUrl, loginCalls, credsFilled, submitted,
                   logged_in, post_elements, feedQueried, itemsDone, posts, context,
                   closeCalls, liOutcome>>
    /\ UNCHANGED <<webVars, runVars, auxVars>>

\* lines 118-120: login failed: context.close() and return [], which still runs the
\* finally block
LiLoginFailed ==
    /\ liPc = "login_failed"
    /\ context' = "closed"
    /\ closeCalls' = closeCalls + 1
    /\ liPc' = "close"
    /\ UNCHANGED <<max_posts, profileDir, pageUrl, landingUrl, loginCalls, credsFilled, submitted,
                   polls, logged_in, post_elements, feedQueried, itemsDone, posts,
                   liOutcome>>
    /\ UNCHANGED <<webVars, runVars, auxVars>>

\* lines 124-158: wait for the feed, scroll, query the post elements; the inner
\* waits swallow their errors, a failing scroll or query goes to the outer except
LiFeedQuery ==
    /\ liPc = "feed"
    /\ \/ \E feed \in Feeds :
             /\ post_elements' = feed
             /\ feedQueried' = TRUE
             /\ liPc' = "items"
       \/ /\ liPc' = "close"
          /\ UNCHANGED <<post_elements, feedQueried>>
    /\ UNCHANGED <<max_posts, profileDir, pageUrl, landingUrl, loginCalls, credsFilled, submitted,
                   polls, logged_in, itemsDone, posts, context, closeCalls, liOutcome>>
    /\ UNCHANGED <<webVars, runVars, auxVars>>

\* lines 200-208: the record of a feed item with the given content
LinkedInPost(item, content) ==
    [author |-> <<"U","n","b","e","k","a","n","n","t">>,
     author_headline |-> <<>>, content |-> content, time_ago |-> <<>>,
     reactions |-> <<"0">>, comments |-> <<"0">>,
     url |-> IF Truthy(item.urn)
             THEN LinkedIn \o <<"/","f","e","e","d","/","u","p","d","a","t","e","/">>
                    \o item.urn.val \o <<"/">>
             ELSE <<>>]

\* mutant of ExtractPost: the post is appended whatever its content
ExtractPost_NoContentCheck(item) ==
    << LinkedInPost(item, IF item.content_elem.some
                          THEN Take(Strip(item.content_elem.val), MaxPostContent)
                          ELSE <<>>) >>

\* lines 162-208: the posts one feed item appends (none or one)
ExtractPost(item) ==
    LET text == IF item.content_elem.some THEN item.content_elem.val ELSE <<>>
        content == Take(Strip(text), MaxPostContent)
    IN IF content # <<>> THEN << LinkedInPost(item, content) >> ELSE <<>>

\* lines 160-211: one iteration of the loop over post_elements[:max_posts]; the
\* exception of one item is caught inside the loop (line 210)
LiItem ==
    /\ liPc = "items"
    /\ itemsDone < Len(Take(post_elements, max_posts))
    /\ itemsDone' = itemsDone + 1
    /\ posts' = IF post_elements[itemsDone + 1].raises THEN posts
                ELSE posts \o ExtractPost(post_elements[itemsDone + 1])
    /\ UNCHANGED <<max_posts, profileDir, liPc, pageUrl, landingUrl, loginCalls, credsFilled,
                   submitted, polls, logged_in, post_elements, feedQueried, context,
                   closeCalls, liOutcome>>
    /\ UNCHANGED <<webVars, runVars, auxVars>>

\* the loop over post_elements[:max_posts] is exhausted
LiItemsEnd ==
    /\ liPc = "items"
    /\ itemsDone = Len(Take(post_elements, max_posts))
    /\ liPc' = "close"
    /\ UNCHANGED <<max_posts, profileDir, pageUrl, landingUrl, loginCalls, credsFilled, submitted,
                   polls, logged_in, post_elements, feedQueried, itemsDone, posts,
                   context, closeCalls, liOutcome>>
    /\ UNCHANGED <<webVars, runVars, auxVars>>

\* mutant of FinallyClose: the finally block leaves the context as it is
FinallyClose_Skip(ctx) == ctx

\* lines 215-216: finally: await context.close(); closing a closed context does
\* nothing
FinallyClose(ctx) == "closed"

\* lines 215-218: the finally block, then return posts
LiClose ==
    /\ liPc = "close"
    /\ context' = FinallyClose(context)
    /\ closeCalls' = closeCalls + 1
    /\ liPc' = "done"
    /\ liOutcome' = "returned"
    /\ UNCHANGED <<max_posts, profileDir, pageUrl, landingUrl, loginCalls, credsFilled,
                   submitted, polls, logged_in, post_elements, feedQueried, itemsDone,
                   posts>>
    /\ UNCHANGED <<webVars, runVars, auxVars>>

----------------------------------------------------------------------------
(* main.py: run_newsbot *)

\* The source buckets in the order run_newsbot handles them. The keys of summaries
\* are "Reddit Übersicht", "LinkedIn Feed", "Futurism AI News", "The Neuron
\* Newsletter" and "Web News Übersicht"; the model names each by its config key.
Buckets == <<"reddit", "linkedin", "futurism", "theneuron", "web_sources">>

\* mutant of Enabled: a source without an entry counts as enabled
Enabled_DefaultTrue(b) == sources_config[b] # "disabled"

\* sources_config.get(b, {}).get("enabled", False)
Enabled(b) == sources_config[b] = "enabled"

\* mutant of HasRecords: the section is written whatever the scrapers returned
HasRecords_Always(n) == TRUE

\* lines 428, 461, 490, 517, 555: truthiness of the list of records
HasRecords(n) == n > 0

\* mutant of CloseBrowser: the scraper returns without closing its browser
CloseBrowser_Leak(open, b) == open

\* the finally block of a scraper: browser.close() (web_news.py:173-174,
\* reddit.py:89-90, futurism.py:115-116, theneuron.py:95-96) or context.close()
\* (linkedin.py:215-216)
CloseBrowser(open, b) == SelectSeq(open, LAMBDA x : x # b)

\* run_newsbot calls the scraper of bucket b and is suspended in the await; the
\* scraper launches its browser (web_news.py:83-88, linkedin.py:81)
Launched(b) ==
    /\ awaiting = "none"
    /\ scraperCalls' = Append(scraperCalls, b)
    /\ browsers' = Append(browsers, b)
    /\ awaiting' = b

\* the awaited scraper call of bucket b closes its browser and returns n records
Returned(b, n) ==
    /\ awaiting = b
    /\ records' = [records EXCEPT ![b] = @ + n]
    /\ browsers' = CloseBrowser(browsers, b)
    /\ awaiting' = "none"

\* a scraper call of bucket b raises (the browser cannot be launched): nothing in
\* run_newsbot catches it, main() prints it and raises it again (lines 610-616)
Raised(b) ==
    /\ awaiting = "none"
    /\ scraperCalls' = Append(scraperCalls, b)
    /\ runOutcome' = "raised"
    /\ UNCHANGED <<awaiting, browsers>>

\* mutant of Summarise: the summary is put in front of the entries stored before
Summarise_Front(b, n) ==
    /\ formatCalls' = Append(formatCalls, <<b, n>>)
    /\ summarizeCalls' = Append(summarizeCalls, b)
    /\ summaries' = <<b>> \o summaries

\* format the n records of bucket b, call summarize_posts, store the summary
Summarise(b, n) ==
    /\ formatCalls' = Append(formatCalls, <<b, n>>)
    /\ summarizeCalls' = Append(summarizeCalls, b)
    /\ summaries' = Append(summaries, b)

\* lines 396-407: load the configuration; sys.exit(1) without an API key
RunStart ==
    /\ runPc = "start"
    /\ runOutcome = "running"
    /\ IF api_key_ok
       THEN runPc' = "reddit" /\ runOutcome' = runOutcome
       ELSE runPc' = runPc /\ runOutcome' = "exit"
    /\ UNCHANGED <<awaiting, browsers, api_key_ok, sources_config, subreddits, email_set, password_set,
                   source_keys, callIdx, records, scraperCalls, formatCalls,
                   summarizeCalls, summaries, combinedCalls, reportWritten>>
    /\ UNCHANGED <<webVars, liVars, auxVars>>

\* line 410: Reddit is not enabled
RunRedditSkip ==
    /\ runPc = "reddit"
    /\ runOutcome = "running"
    /\ ~Enabled("reddit")
    /\ runPc' = "linkedin"
    /\ UNCHANGED <<awaiting, browsers, api_key_ok, sources_config, subreddits, email_set, password_set,
                   source_keys, callIdx, records, scraperCalls, formatCalls,
                   summarizeCalls, summaries, combinedCalls, reportWritten, runOutcome>>
    /\ UNCHANGED <<webVars, liVars, auxVars>>

\* lines 414-422: call scrape_subreddit for the next subreddit
RunRedditCall ==
    /\ runPc = "reddit"
    /\ runOutcome = "running"
    /\ Enabled("reddit")
    /\ callIdx < Len(subreddits)
    /\ \/ Launched("reddit") /\ runOutcome' = runOutcome
       \/ Raised("reddit")
    /\ UNCHANGED <<api_key_ok, sources_config, subreddits, email_set, password_set,
                   source_keys, runPc, callIdx, records, formatCalls, summarizeCalls,
                   summaries, combinedCalls, reportWritten>>
    /\ UNCHANGED <<webVars, liVars, auxVars>>

\* lines 422-425: scrape_subreddit returns its posts
RunRedditReturn ==
    /\ runPc = "reddit"
    /\ runOutcome = "running"
    /\ \E n \in 0..MaxRecords : Returned("reddit", n)
    /\ callIdx' = callIdx + 1
    /\ UNCHANGED <<api_key_ok, sources_config, subreddits, email_set, password_set,
                   source_keys, runPc, scraperCalls, formatCalls, summarizeCalls,
                   summaries, combinedCalls, reportWritten, runOutcome>>
    /\ UNCHANGED <<webVars, liVars, auxVars>>

\* lines 427-439: one summary for the posts of all subreddits
RunRedditEnd ==
    /\ runPc = "reddit"
    /\ runOutcome = "running"
    /\ Enabled("reddit")
    /\ callIdx = Len(subreddits)
    /\ IF HasRecords(records["reddit"])
       THEN Summarise("reddit", records["reddit"])
       ELSE UNCHANGED <<formatCalls, summarizeCalls, summaries>>
    /\ runPc' = "linkedin"
    /\ callIdx' = 0
    /\ UNCHANGED <<awaiting, browsers, api_key_ok, sources_config, subreddits, email_set, password_set,
                   source_keys, records, scraperCalls, combinedCalls, reportWritten,
                   runOutcome>>
    /\ UNCHANGED <<webVars, liVars, auxVars>>

\* mutant of HasCredentials: the call is made whatever the credentials
HasCredentials_Unchecked(email, password) == TRUE

\* line 448: if email and password
HasCredentials(email, password) == email /\ password

\* lines 442 and 472-473: LinkedIn is not enabled, or a credential is missing
RunLinkedInSkip ==
    /\ runPc = "linkedin"
    /\ runOutcome = "running"
    /\ ~(Enabled("linkedin") /\ HasCredentials(email_set, password_set))
    /\ runPc' = "futurism"
    /\ UNCHANGED <<awaiting, browsers, api_key_ok, sources_config, subreddits, email_set, password_set,
                   source_keys, callIdx, records, scraperCalls, formatCalls,
                   summarizeCalls, summaries, combinedCalls, reportWritten, runOutcome>>
    /\ UNCHANGED <<webVars, liVars, auxVars>>

\* a bucket with one scraper call: the call
SingleCall(b) ==
    /\ \/ Launched(b) /\ runOutcome' = runOutcome
       \/ Raised(b)
    /\ UNCHANGED <<api_key_ok, sources_config, subreddits, email_set, password_set,
                   source_keys, runPc, callIdx, records, formatCalls, summarizeCalls,
                   summaries, combinedCalls, reportWritten>>

\* a bucket with one scraper call: the call returns, then the summary when it
\* returned records
SingleReturn(b, next) ==
    /\ \E n \in 0..MaxRecords :
          /\ Returned(b, n)
          /\ IF HasRecords(n)
             THEN Summarise(b, n)
             ELSE UNCHANGED <<formatCalls, summarizeCalls, summaries>>
    /\ runPc' = next
    /\ UNCHANGED <<api_key_ok, sources_config, subreddits, email_set, password_set,
                   source_keys, callIdx, scraperCalls, combinedCalls, reportWritten,
                   runOutcome>>

\* lines 448-456: call scrape_linkedin_feed
RunLinkedInCall ==
    /\ runPc = "linkedin"
    /\ runOutcome = "running"
    /\ Enabled("linkedin") /\ HasCredentials(email_set, password_set)
    /\ SingleCall("linkedin")
    /\ UNCHANGED <<webVars, liVars, auxVars>>

\* lines 456-471: scrape_linkedin_feed returns; summarise its posts
RunLinkedInReturn ==
    /\ runPc = "linkedin"
    /\ runOutcome = "running"
    /\ SingleReturn("linkedin", "futurism")
    /\ UNCHANGED <<webVars, liVars, auxVars>>

\* line 476: Futurism is not enabled
RunFuturismSkip ==
    /\ runPc = "futurism"
    /\ runOutcome = "running"
    /\ ~Enabled("futurism")
    /\ runPc' = "theneuron"
    /\ UNCHANGED <<awaiting, browsers, api_key_ok, sources_config, subreddits, email_set, password_set,
                   source_keys, callIdx, records, scraperCalls, formatCalls,
                   summarizeCalls, summaries, combinedCalls, reportWritten, runOutcome>>
    /\ UNCHANGED <<webVars, liVars, auxVars>>

\* lines 477-486: call scrape_futurism
RunFuturismCall ==
    /\ runPc = "futurism"
    /\ runOutcome = "running"
    /\ Enabled("futurism")
    /\ SingleCall("futurism")
    /\ UNCHANGED <<webVars, liVars, auxVars>>

\* lines 486-500: scrape_futurism returns; summarise its articles
RunFuturismReturn ==
    /\ runPc = "futurism"
    /\ runOutcome = "running"
    /\ SingleReturn("futurism", "theneuron")
    /\ UNCHANGED <<webVars, liVars, auxVars>>

\* line 503: The Neuron is not enabled
RunNeuronSkip ==
    /\ runPc = "theneuron"
    /\ runOutcome = "running"
    /\ ~Enabled("theneuron")
    /\ runPc' = "web_sources"
    /\ UNCHANGED <<awaiting, browsers, api_key_ok, sources_config, subreddits, email_set, password_set,
                   source_keys, callIdx, records, scraperCalls, formatCalls,
                   summarizeCalls, summaries, combinedCalls, reportWritten, runOutcome>>
    /\ UNCHANGED <<webVars, liVars, auxVars>>

\* lines 504-513: call scrape_theneuron
RunNeuronCall ==
    /\ runPc = "theneuron"
    /\ runOutcome = "running"
    /\ Enabled("theneuron")
    /\ SingleCall("theneuron")
    /\ UNCHANGED <<webVars, liVars, auxVars>>

\* lines 513-527: scrape_theneuron returns; summarise its articles
RunNeuronReturn ==
    /\ runPc = "theneuron"
    /\ runOutcome = "running"
    /\ SingleReturn("theneuron", "web_sources")
    /\ UNCHANGED <<webVars, liVars, auxVars>>

\* line 530: the web sources are not enabled
RunWebSkip ==
    /\ runPc = "web_sources"
    /\ runOutcome = "running"
    /\ ~Enabled("web_sources")
    /\ runPc' = "report"
    /\ UNCHANGED <<awaiting, browsers, api_key_ok, sources_config, subreddits, email_set, password_set,
                   source_keys, callIdx, records, scraperCalls, formatCalls,
                   summarizeCalls, summaries, combinedCalls, reportWritten, runOutcome>>
    /\ UNCHANGED <<webVars, liVars, auxVars>>

\* lines 537-539: a key that is not in SITE_CONFIGS is passed over
RunWebUnknownKey ==
    /\ runPc = "web_sources"
    /\ runOutcome = "running"
    /\ Enabled("web_sources")
    /\ callIdx < Len(source_keys)
    /\ source_keys[callIdx + 1] \notin DOMAIN SITE_CONFIGS
    /\ callIdx' = callIdx + 1
    /\ UNCHANGED <<awaiting, browsers, api_key_ok, sources_config, subreddits, email_set, password_set,
                   source_keys, runPc, records, scraperCalls, formatCalls,
                   summarizeCalls, summaries, combinedCalls, reportWritten, runOutcome>>
    /\ UNCHANGED <<webVars, liVars, auxVars>>

\* lines 540-549: call scrape_web_source for the next configured key
RunWebCall ==
    /\ runPc = "web_sources"
    /\ runOutcome = "running"
    /\ Enabled("web_sources")
    /\ callIdx < Len(source_keys)
    /\ source_keys[callIdx + 1] \in DOMAIN SITE_CONFIGS
    /\ \/ Launched("web_sources") /\ runOutcome' = runOutcome
       \/ Raised("web_sources")
    /\ UNCHANGED <<api_key_ok, sources_config, subreddits, email_set, password_set,
                   source_keys, runPc, callIdx, records, formatCalls, summarizeCalls,
                   summaries, combinedCalls, reportWritten>>
    /\ UNCHANGED <<webVars, liVars, auxVars>>

\* lines 549-552: scrape_web_source returns its articles
RunWebReturn ==
    /\ runPc = "web_sources"
    /\ runOutcome = "running"
    /\ \E n \in 0..MaxRecords : Returned("web_sources", n)
    /\ callIdx' = callIdx + 1
    /\ UNCHANGED <<api_key_ok, sources_config, subreddits, email_set, password_set,
                   source_keys, runPc, scraperCalls, formatCalls, summarizeCalls,
                   summaries, combinedCalls, reportWritten, runOutcome>>
    /\ UNCHANGED <<webVars, liVars, auxVars>>

\* lines 554-566: one summary for the articles of all web sources
RunWebEnd ==
    /\ runPc = "web_sources"
    /\ runOutcome = "running"
    /\ Enabled("web_sources")
    /\ callIdx = Len(source_keys)
    /\ IF HasRecords(records["web_sources"])
       THEN Summarise("web_sources", records["web_sources"])
       ELSE UNCHANGED <<formatCalls, summarizeCalls, summaries>>
    /\ runPc' = "report"
    /\ callIdx' = 0
    /\ UNCHANGED <<awaiting, browsers, api_key_ok, sources_config, subreddits, email_set, password_set,
                   source_keys, records, scraperCalls, combinedCalls, reportWritten,
                   runOutcome>>
    /\ UNCHANGED <<webVars, liVars, auxVars>>

\* lines 569-601: return when there is no summary; else build the sections, call
\* create_combined_summary when there are several, and save the report
RunReport ==
    /\ runPc = "report"
    /\ runOutcome = "running"
    /\ IF summaries = <<>>
       THEN UNCHANGED <<combinedCalls, reportWritten>>
       ELSE /\ combinedCalls' = IF Len(summaries) > 1 THEN combinedCalls + 1
                                ELSE combinedCalls
            /\ reportWritten' = TRUE
    /\ runPc' = "done"
    /\ runOutcome' = "returned"
    /\ UNCHANGED <<awaiting, browsers, api_key_ok, sources_config, subreddits, email_set, password_set,
                   source_keys, callIdx, records, scraperCalls, formatCalls,
                   summarizeCalls, summaries>>
    /\ UNCHANGED <<webVars, liVars, auxVars>>

----------------------------------------------------------------------------
(* Content selector chains: sources/web_news.py lines 146-154 and
   sources/theneuron.py lines 64-78.  A paragraph of the page carries its inner
   text and the set of selectors that match it. *)

\* SITE_CONFIGS[key]["content"]: the alternatives of the comma-separated selector
ContentSelectors ==
    [theverge |-> <<"article p", ".article-body p", "[class*='article-body'] p">>,
     techcrunch |-> <<"article p", ".article-content p", "[class*='article'] p">>,
     mit_news |-> <<"article p", ".news-article p", "[class*='article'] p",
                    ".paragraph p">>,
     ai_news |-> <<"article p", ".entry-content p", ".post-content p",
                   "[class*='content'] p">>,
     deutsche_startups |-> <<"article p", ".entry-content p">>]

\* theneuron.py line 68: the selector list
NeuronSelectors ==
    <<"article p", "[class*='article'] p", "[class*='content'] p",
      ".newsletter-content p", "main p">>

NeuronMaxParagraphs == 15
NeuronMinFragmentLen == 30

\* page.query_selector_all(selectors joined by ","): the elements that match one
\* of the selectors of the list, in document order
QuerySelectorAll(selectors, dom) ==
    SelectSeq(dom, LAMBDA elem :
        \E i \in 1..Len(selectors) : selectors[i] \in elem.matches)

ElemTexts(elems) == [k \in 1..Len(elems) |-> elems[k].text]

\* web_news.py lines 146-154: one query with the whole chain, then the join
WebContentQuery ==
    /\ selPc = "web"
    /\ LET content_elems == QuerySelectorAll(selChain, selDom)
           parts == ContentParts(Page(FALSE, PyNone, PyNone, ElemTexts(content_elems)))
       IN /\ content_parts' = parts
          /\ page_content' = JoinParts(parts)
    /\ selPc' = "joined"
    /\ UNCHANGED <<selChain, selDom, selIdx>>
    /\ UNCHANGED <<webVars, liVars, runVars, notSel>>

\* theneuron.py lines 71-74: the fragments one selector of the list contributes
NeuronParts(elems) ==
    LET first == Take(ElemTexts(elems), NeuronMaxParagraphs)
        long == SelectSeq(first, LAMBDA text :
                    text # <<>> /\ Len(text) > NeuronMinFragmentLen)
    IN [k \in 1..Len(long) |-> Strip(long[k])]

\* theneuron.py lines 75-76: break out of the selector loop (inside "if content_elems")
NeuronBreak(elems, parts) == elems # <<>> /\ parts # <<>>

\* theneuron.py lines 68-76: one iteration of the loop over the selector list
NeuronSelectorStep ==
    /\ selPc = "neuron"
    /\ selIdx < Len(selChain)
    /\ LET content_elems == QuerySelectorAll(<<selChain[selIdx + 1]>>, selDom)
           parts == IF content_elems # <<>>
                    THEN content_parts \o NeuronParts(content_elems)
                    ELSE content_parts
       IN /\ content_parts' = parts
          /\ selIdx' = IF NeuronBreak(content_elems, parts)
                       THEN Len(selChain) ELSE selIdx + 1
    /\ UNCHANGED <<selChain, selDom, selPc, page_content>>
    /\ UNCHANGED <<webVars, liVars, runVars, notSel>>

\* theneuron.py line 78: the join after the loop
NeuronJoin ==
    /\ selPc = "neuron"
    /\ selIdx = Len(selChain)
    /\ page_content' = JoinParts(content_parts)
    /\ selPc' = "joined"
    /\ UNCHANGED <<selChain, selDom, selIdx, content_parts>>
    /\ UNCHANGED <<webVars, liVars, runVars, notSel>>

----------------------------------------------------------------------------
(* sources/reddit.py: scrape_subreddit (lines 22-93).  A listing element carries
   whether reading it raises and its a.title element (None when missing) with
   inner text and href attribute. *)

Thing(raises, title_elem) == [raises |-> raises, title_elem |-> title_elem]

TitleElem(text, href) == Some([text |-> text, href |-> href])

ThingRaises == Thing(TRUE, PyNone)
ThingRelative == Thing(FALSE, TitleElem(<<"T">>, Some(<<"/","r","/","1">>)))
ThingAbsolute == Thing(FALSE, TitleElem(<<"U">>, Some(<<"h","t","t","p","s",":","/","/","e","/","1">>)))
ThingNoHref == Thing(FALSE, TitleElem(<<"V">>, PyNone))
ThingNoTitle == Thing(FALSE, PyNone)

ThingPool == {ThingRaises, ThingRelative, ThingAbsolute, ThingNoHref, ThingNoTitle}

OldReddit == <<"h","t","t","p","s",":","/","/","o","l","d",".","r","e","d","d","i","t",".","c","o","m">>

\* lines 49-56 and 75: the record one element appends
ExtractThing(thing) ==
    LET elem == thing.title_elem
        title == IF elem.some THEN elem.val.text
                 ELSE <<"K","e","i","n"," ","T","i","t","e","l">>
        href == IF elem.some THEN elem.val.href ELSE Some(<<>>)
        post_url == IF Truthy(href) /\ StartsWith(href.val, <<"/">>)
                    THEN Some(OldReddit \o href.val) ELSE href
    IN [title |-> title, url |-> post_url]

\* mutant of ThingsWithinBudget: the loop runs over the whole listing
ThingsWithinBudget_All(all, budget) == all

\* line 46: things[:max_posts]
ThingsWithinBudget(all, budget) == Take(all, budget)

\* lines 29-34: launch of the browser, outside the try block
RedditLaunch ==
    /\ redditPc = "start"
    /\ \/ /\ redditBrowser' = "open"
          /\ redditPc' = "goto"
          /\ redditOutcome' = redditOutcome
       \/ /\ redditBrowser' = redditBrowser
          /\ redditPc' = "done"
          /\ redditOutcome' = "raised"
    /\ UNCHANGED <<redditMaxPosts, things, thingsDone, redditPosts>>
    /\ UNCHANGED <<webVars, liVars, runVars, notReddit>>

\* lines 40-44: goto, wait_for_selector and the query; a failure goes to line 88
RedditGoto ==
    /\ redditPc = "goto"
    /\ \E loaded \in BOOLEAN :
          redditPc' = IF loaded THEN "things" ELSE "close"
    /\ UNCHANGED <<redditMaxPosts, things, thingsDone, redditPosts, redditBrowser,
                   redditOutcome>>
    /\ UNCHANGED <<webVars, liVars, runVars, notReddit>>

\* lines 46-86: one iteration of the loop over things[:max_posts]
RedditThing ==
    /\ redditPc = "things"
    /\ thingsDone < Len(ThingsWithinBudget(things, redditMaxPosts))
    /\ LET thing == ThingsWithinBudget(things, redditMaxPosts)[thingsDone + 1]
       IN redditPosts' = IF thing.raises THEN redditPosts
                         ELSE Append(redditPosts, ExtractThing(thing))
    /\ thingsDone' = thingsDone + 1
    /\ UNCHANGED <<redditMaxPosts, things, redditPc, redditBrowser, redditOutcome>>
    /\ UNCHANGED <<webVars, liVars, runVars, notReddit>>

\* the loop over things[:max_posts] is exhausted
RedditThingsEnd ==
    /\ redditPc = "things"
    /\ thingsDone = Len(ThingsWithinBudget(things, redditMaxPosts))
    /\ redditPc' = "close"
    /\ UNCHANGED <<redditMaxPosts, things, thingsDone, redditPosts, redditBrowser,
                   redditOutcome>>
    /\ UNCHANGED <<webVars, liVars, runVars, notReddit>>

\* lines 90-93: finally browser.close(), then return posts
RedditClose ==
    /\ redditPc = "close"
    /\ redditBrowser' = "closed"
    /\ redditPc' = "done"
    /\ redditOutcome' = "returned"
    /\ UNCHANGED <<redditMaxPosts, things, thingsDone, redditPosts>>
    /\ UNCHANGED <<webVars, liVars, runVars, notReddit>>

----------------------------------------------------------------------------
(* The formatters: format_articles_for_llm (sources/web_news.py lines 179-200) and
   format_posts_for_llm of reddit.py (95-112), linkedin.py (221-243), futurism.py
   (121-142) and theneuron.py (101-120) *)

\* str(n) of a natural number
RECURSIVE IntToStr(_)
IntToStr(n) ==
    LET digit == <<"0","1","2","3","4","5","6","7","8","9">>[(n % 10) + 1]
    IN IF n < 10 THEN <<digit>> ELSE Append(IntToStr(n \div 10), digit)

\* "\n".join(lines)
RECURSIVE JoinLines(_)
JoinLines(lines) ==
    IF lines = <<>> THEN <<>>
    ELSE IF Len(lines) = 1 THEN lines[1]
    ELSE lines[1] \o <<"\n">> \o JoinLines(Tail(lines))

\* web_news.py lines 184-185
WebHeading(name) == <<"#"," ">> \o name \o <<" ","N","e","w","s","\n">>
WebInstruction == <<"W","I","C","H","T","I","G",":"," ","N","u","t","z","e"," ","d","i","e"," ","A","r","t","i","k","e","l","-","U","R","L","s"," ","i","n"," ","d","e","i","n","e","r"," ","Z","u","s","a","m","m","e","n","f","a","s","s","u","n","g"," ","a","l","s"," ","Q","u","e","l","l","e","n","l","i","n","k","s","!","\n">>

\* mutant of ArticleEntry: the URL line comes before the author line
ArticleEntry_UrlBeforeAuthor(i, article) ==
    <<"\n","#","#"," ","A","r","t","i","k","e","l"," ","#">>
        \o IntToStr(i)
        \o <<":"," ">>
        \o article.title
        \o <<"\n","-"," ","*","*","A","R","T","I","K","E","L","-","U","R","L",":","*","*"," ">>
        \o article.url
        \o <<"\n","-"," ","*","*","A","u","t","o","r",":","*","*"," ">>
        \o article.author
        \o <<"\n","-"," ","*","*","Q","u","e","l","l","e",":","*","*"," ">>
        \o article.source
        \o <<"\n","\n","*","*","I","n","h","a","l","t",":","*","*","\n">>
        \o article.content
        \o <<"\n","\n","-","-","-","\n">>

\* web_news.py lines 188-198: the entry of one article
ArticleEntry(i, article) ==
    <<"\n","#","#"," ","A","r","t","i","k","e","l"," ","#">>
        \o IntToStr(i)
        \o <<":"," ">>
        \o article.title
        \o <<"\n","-"," ","*","*","A","u","t","o","r",":","*","*"," ">>
        \o article.author
        \o <<"\n","-"," ","*","*","Q","u","e","l","l","e",":","*","*"," ">>
        \o article.source
        \o <<"\n","-"," ","*","*","A","R","T","I","K","E","L","-","U","R","L",":","*","*"," ">>
        \o article.url
        \o <<"\n","\n","*","*","I","n","h","a","l","t",":","*","*","\n">>
        \o article.content
        \o <<"\n","\n","-","-","-","\n">>

\* web_news.py lines 179-200
format_articles_for_llm(arts, name) ==
    IF arts = <<>>
    THEN <<"K","e","i","n","e"," ","A","r","t","i","k","e","l"," ","v","o","n"," ">> \o name \o <<" ","g","e","f","u","n","d","e","n",".">>
    ELSE JoinLines(<<WebHeading(name), WebInstruction>>
                   \o [i \in 1..Len(arts) |-> ArticleEntry(i, arts[i])])

\* reddit.py lines 101-102: the heading counts the distinct subreddits
RedditHeading(recs) ==
    <<"#"," ","R","e","d","d","i","t"," ","P","o","s","t","s"," ","a","u","s"," ">>
        \o IntToStr(Cardinality({recs[k].subreddit : k \in 1..Len(recs)}))
        \o <<" ","S","u","b","r","e","d","d","i","t","s","\n">>

\* reddit.py lines 105-110: the entry of one post
RedditEntry(i, post) ==
    <<"\n","#","#"," ">>
        \o IntToStr(i)
        \o <<"."," ","r","/">>
        \o post.subreddit
        \o <<":"," ">>
        \o post.title
        \o <<"\n","-"," ","*","*","A","u","t","o","r",":","*","*"," ","u","/">>
        \o post.author
        \o <<"\n","-"," ","*","*","S","c","o","r","e",":","*","*"," ">>
        \o post.score
        \o <<" ","|"," ","*","*","K","o","m","m","e","n","t","a","r","e",":","*","*"," ">>
        \o post.comments
        \o <<"\n","-"," ","*","*","L","i","n","k",":","*","*"," ">>
        \o post.url
        \o <<"\n">>

\* reddit.py lines 95-112
reddit_format_posts_for_llm(recs) ==
    IF recs = <<>>
    THEN <<"K","e","i","n","e"," ","P","o","s","t","s"," ","g","e","f","u","n","d","e","n",".">>
    ELSE JoinLines(<<RedditHeading(recs)>> \o [i \in 1..Len(recs) |-> RedditEntry(i, recs[i])])

\* linkedin.py lines 226-227
LinkedInHeading == <<"#"," ","L","i","n","k","e","d","I","n"," ","F","e","e","d"," ","P","o","s","t","s","\n">>
LinkedInInstruction == <<"W","I","C","H","T","I","G",":"," ","N","u","t","z","e"," ","d","i","e"," ","P","o","s","t","-","U","R","L","s"," ","i","n"," ","d","e","i","n","e","r"," ","Z","u","s","a","m","m","e","n","f","a","s","s","u","n","g"," ","a","l","s"," ","Q","u","e","l","l","e","n","l","i","n","k","s","!","\n">>

\* linkedin.py lines 230-240: the entry of one post
LinkedInEntry(i, post) ==
    <<"\n","#","#"," ","P","o","s","t"," ","#">>
        \o IntToStr(i)
        \o <<":"," ">>
        \o post.author
        \o <<"\n","-"," ","*","*","P","o","s","i","t","i","o","n",":","*","*"," ">>
        \o post.author_headline
        \o <<"\n","-"," ","*","*","Z","e","i","t",":","*","*"," ">>
        \o post.time_ago
        \o <<"\n","-"," ","*","*","R","e","a","k","t","i","o","n","e","n",":","*","*"," ">>
        \o post.reactions
        \o <<" ","|"," ","*","*","K","o","m","m","e","n","t","a","r","e",":","*","*"," ">>
        \o post.comments
        \o <<"\n","-"," ","*","*","P","O","S","T","-","U","R","L",":","*","*"," ">>
        \o post.url
        \o <<"\n","\n","*","*","I","n","h","a","l","t",":","*","*","\n">>
        \o post.content
        \o <<"\n","\n","-","-","-","\n">>

\* linkedin.py lines 221-243
linkedin_format_posts_for_llm(recs) ==
    IF recs = <<>>
    THEN <<"K","e","i","n","e"," ","L","i","n","k","e","d","I","n"," ","P","o","s","t","s"," ","g","e","f","u","n","d","e","n",".">>
    ELSE JoinLines(<<LinkedInHeading, LinkedInInstruction>>
                   \o [i \in 1..Len(recs) |-> LinkedInEntry(i, recs[i])])

\* futurism.py lines 126-127
FuturismHeading == <<"#"," ","F","u","t","u","r","i","s","m",".","c","o","m"," ","A","I"," ","N","e","w","s","\n">>
FuturismInstruction == <<"W","I","C","H","T","I","G",":"," ","N","u","t","z","e"," ","d","i","e"," ","A","r","t","i","k","e","l","-","U","R","L","s"," ","i","n"," ","d","e","i","n","e","r"," ","Z","u","s","a","m","m","e","n","f","a","s","s","u","n","g"," ","a","l","s"," ","Q","u","e","l","l","e","n","l","i","n","k","s","!","\n">>

\* futurism.py lines 130-140: the entry of one article
FuturismEntry(i, article) ==
    <<"\n","#","#"," ","A","r","t","i","k","e","l"," ","#">>
        \o IntToStr(i)
        \o <<":"," ">>
        \o article.title
        \o <<"\n","-"," ","*","*","A","u","t","o","r",":","*","*"," ">>
        \o article.author
        \o <<"\n","-"," ","*","*","K","a","t","e","g","o","r","i","e",":","*","*"," ">>
        \o article.category
        \o <<"\n","-"," ","*","*","A","R","T","I","K","E","L","-","U","R","L",":","*","*"," ">>
        \o article.url
        \o <<"\n","\n","*","*","I","n","h","a","l","t",":","*","*","\n">>
        \o article.content
        \o <<"\n","\n","-","-","-","\n">>

\* futurism.py lines 121-142
futurism_format_posts_for_llm(recs) ==
    IF recs = <<>>
    THEN <<"K","e","i","n","e"," ","F","u","t","u","r","i","s","m","-","A","r","t","i","k","e","l"," ","g","e","f","u","n","d","e","n",".">>
    ELSE JoinLines(<<FuturismHeading, FuturismInstruction>>
                   \o [i \in 1..Len(recs) |-> FuturismEntry(i, recs[i])])

\* theneuron.py lines 106-107
NeuronHeading == <<"#"," ","T","h","e"," ","N","e","u","r","o","n"," ","N","e","w","s","l","e","t","t","e","r","\n">>
NeuronInstruction == <<"W","I","C","H","T","I","G",":"," ","N","u","t","z","e"," ","d","i","e"," ","A","r","t","i","k","e","l","-","U","R","L","s"," ","i","n"," ","d","e","i","n","e","r"," ","Z","u","s","a","m","m","e","n","f","a","s","s","u","n","g"," ","a","l","s"," ","Q","u","e","l","l","e","n","l","i","n","k","s","!","\n">>

\* theneuron.py lines 110-118: the entry of one article
NeuronEntry(i, article) ==
    <<"\n","#","#"," ","A","r","t","i","k","e","l"," ","#">>
        \o IntToStr(i)
        \o <<":"," ">>
        \o article.title
        \o <<"\n","-"," ","*","*","A","R","T","I","K","E","L","-","U","R","L",":","*","*"," ">>
        \o article.url
        \o <<"\n","\n","*","*","I","n","h","a","l","t",":","*","*","\n">>
        \o article.content
        \o <<"\n","\n","-","-","-","\n">>

\* theneuron.py lines 101-120
theneuron_format_posts_for_llm(recs) ==
    IF recs = <<>>
    THEN <<"K","e","i","n","e"," ","T","h","e"," ","N","e","u","r","o","n"," ","A","r","t","i","k","e","l"," ","g","e","f","u","n","d","e","n",".">>
    ELSE JoinLines(<<NeuronHeading, NeuronInstruction>> \o [i \in 1..Len(recs) |-> NeuronEntry(i, recs[i])])

\* the call of the formatter of adapter fn
FormatCall(fn, Formatted) ==
    /\ fmtPc = "call"
    /\ fmtFn = fn
    /\ fmtOut' = Formatted
    /\ fmtPc' = "returned"
    /\ UNCHANGED <<fmtFn, fmtRecords, source_name>>
    /\ UNCHANGED <<webVars, liVars, runVars, notFmt>>

FormatWebNews == FormatCall("web_news", format_articles_for_llm(fmtRecords, source_name))
FormatReddit == FormatCall("reddit", reddit_format_posts_for_llm(fmtRecords))
FormatLinkedIn == FormatCall("linkedin", linkedin_format_posts_for_llm(fmtRecords))
FormatFuturism == FormatCall("futurism", futurism_format_posts_for_llm(fmtRecords))
FormatNeuron == FormatCall("theneuron", theneuron_format_posts_for_llm(fmtRecords))

----------------------------------------------------------------------------
(* llm/summarizer.py: create_executive_briefing (lines 345-431).  The remote call
   either raises (network failure, timeout) or gives a response with status code,
   body text and, when the body is JSON, the parsed value: whether it has the key
   "choices" and the message contents of the choices. *)

\* the character U+274C that opens every failure string
CrossMark == "[U+274C]"

\* str.count(needle): occurrences from left to right without overlap
RECURSIVE CountFrom(_, _, _)
CountFrom(text, needle, from) ==
    LET at == FindFrom(text, needle, from)
    IN IF at = 0 THEN 0 ELSE 1 + CountFrom(text, needle, at + Len(needle))

\* lines 365-378: the sources with a non-blank block and the estimate of the items
NewsContext(news) ==
    SelectSeq(news, LAMBDA n : n.posts_text # <<>> /\ Strip(n.posts_text) # <<>>)

RECURSIVE TotalItems(_)
TotalItems(kept) ==
    IF kept = <<>> THEN 0
    ELSE CountFrom(kept[1].posts_text, <<"#","#"," ">>, 1)
         + CountFrom(kept[1].posts_text, <<"#"," ">>, 1)
         + TotalItems(Tail(kept))

Response(status_code, text, json) ==
    [kind |-> "response", status_code |-> status_code, text |-> text, json |-> json]

RaisedBy(exception, message) ==
    [kind |-> "exception", exception |-> exception, message |-> message]

\* response bodies: a completion, JSON without "choices", JSON with an empty list
\* of choices, and text that is no JSON
BodyCompletion ==
    [text |-> <<"{","\"","c","h","o","i","c","e","s","\"",":","[","{","\"","m","e","s","s","a","g","e","\"",":","{","\"","c","o","n","t","e","n","t","\"",":","\"","H","i","\"","}","}","]","}">>,
     json |-> Some([has_choices |-> TRUE, choices |-> << <<"H","i">> >>])]
BodyNoChoices ==
    [text |-> <<"{","\"","e","r","r","o","r","\"",":","\"","x","\"","}">>,
     json |-> Some([has_choices |-> FALSE, choices |-> <<>>])]
BodyEmptyChoices ==
    [text |-> <<"{","\"","c","h","o","i","c","e","s","\"",":","[","]","}">>,
     json |-> Some([has_choices |-> TRUE, choices |-> <<>>])]
BodyNotJson == [text |-> <<"o","o","p","s">>, json |-> PyNone]

Bodies == {BodyCompletion, BodyNoChoices, BodyEmptyChoices, BodyNotJson}

StatusCodes == {200, 302, 401, 429, 500}

\* what client.post can do
PostOutcomes ==
    {Response(code, body.text, body.json) : code \in StatusCodes, body \in Bodies}
    \cup {RaisedBy("ConnectError", <<"d","o","w","n">>), RaisedBy("ReadTimeout", <<>>)}

\* mutant of CatchException: the exception is not caught
CatchException_Unhandled(message) == [raised |-> TRUE, value |-> <<>>]

\* lines 430-431: except Exception
CatchException(message) ==
    [raised |-> FALSE,
     value |-> <<CrossMark>> \o <<" ","F","e","h","l","e","r"," ","b","e","i"," ","d","e","r"," ","B","r","i","e","f","i","n","g","-","E","r","s","t","e","l","l","u","n","g",":"," ">> \o message]

\* lines 428-429: except httpx.HTTPStatusError
CatchStatusError(resp) ==
    [raised |-> FALSE,
     value |-> <<CrossMark>> \o <<" ","A","P","I","-","F","e","h","l","e","r",":"," ">> \o IntToStr(resp.status_code)
               \o <<" ","-"," ">> \o resp.text]

\* response.raise_for_status(): raises for every status outside 200..299
IsSuccess(status_code) == status_code >= 200 /\ status_code <= 299

\* lines 365-414: the prompt is built from the sources with a non-blank block
BriefPrompt ==
    /\ briefPc = "prompt"
    /\ news_context' = NewsContext(all_news)
    /\ total_items' = TotalItems(NewsContext(all_news))
    /\ briefPc' = "post"
    /\ UNCHANGED <<all_news, remote, caught, briefResult>>
    /\ UNCHANGED <<webVars, liVars, runVars, notBrief>>

\* lines 416-421: client.post raises or gives a response
BriefPost ==
    /\ briefPc = "post"
    /\ \E outcome \in PostOutcomes :
          /\ remote' = Some(outcome)
          /\ IF outcome.kind = "exception"
             THEN /\ caught' = Some(outcome.message)
                  /\ briefResult' = CatchException(outcome.message)
                  /\ briefPc' = "returned"
             ELSE /\ caught' = caught
                  /\ briefResult' = briefResult
                  /\ briefPc' = "status"
    /\ UNCHANGED <<all_news, news_context, total_items>>
    /\ UNCHANGED <<webVars, liVars, runVars, notBrief>>

\* line 422: response.raise_for_status()
BriefRaiseForStatus ==
    /\ briefPc = "status"
    /\ IF IsSuccess(remote.val.status_code)
       THEN /\ briefPc' = "json"
            /\ UNCHANGED <<caught, briefResult>>
       ELSE /\ caught' = Some(<<"H","T","T","P","S","t","a","t","u","s","E","r","r","o","r">>)
            /\ briefResult' = CatchStatusError(remote.val)
            /\ briefPc' = "returned"
    /\ UNCHANGED <<all_news, news_context, total_items, remote>>
    /\ UNCHANGED <<webVars, liVars, runVars, notBrief>>

\* str(e) of the exceptions of lines 424-425
JsonDecodeMessage == <<"E","x","p","e","c","t","i","n","g"," ","v","a","l","u","e",":"," ","l","i","n","e"," ","1"," ","c","o","l","u","m","n"," ","1"," ","(","c","h","a","r"," ","0",")">>
KeyErrorMessage == <<"'","c","h","o","i","c","e","s","'">>
IndexErrorMessage == <<"l","i","s","t"," ","i","n","d","e","x"," ","o","u","t"," ","o","f"," ","r","a","n","g","e">>

\* lines 424-425: response.json() and data["choices"][0]["message"]["content"]
BriefJson ==
    /\ briefPc = "json"
    /\ LET data == remote.val.json
           failure == IF ~data.some THEN Some(JsonDecodeMessage)
                      ELSE IF ~data.val.has_choices THEN Some(KeyErrorMessage)
                      ELSE IF data.val.choices = <<>> THEN Some(IndexErrorMessage)
                      ELSE PyNone
       IN IF failure.some
          THEN /\ caught' = failure
               /\ briefResult' = CatchException(failure.val)
          ELSE /\ caught' = caught
               /\ briefResult' = [raised |-> FALSE, value |-> data.val.choices[1]]
    /\ briefPc' = "returned"
    /\ UNCHANGED <<all_news, news_context, total_items, remote>>
    /\ UNCHANGED <<webVars, liVars, runVars, notBrief>>

----------------------------------------------------------------------------
(* Inputs and specifications *)

\* hrefs a listing page of the descriptor may carry: missing and empty hrefs, a
\* relative href, the same path in another case and in absolute form, a relative
\* href without leading slash, and hrefs carrying the first (relative) and the
\* last (absolute) exclude pattern of the descriptor
HrefPool(cfg) ==
    { PyNone,
      Some(<<>>),
      Some(<<"/","a","/","1">>),
      Some(<<"/","A","/","1">>),
      Some(Origin(cfg.base_url) \o <<"/","a","/","1">>),
      Some(<<"a","/","3">>),
      Some(<<"/","x">> \o cfg.exclude_patterns[1] \o <<"y">>),
      Some(Origin(cfg.base_url) \o cfg.exclude_patterns[Len(cfg.exclude_patterns)]
             \o <<"z">>) }

\* the listing page of the specification's worked scenario
ScenarioListing ==
    << Some(<<"/","a","/","1">>), Some(<<"/","t","a","g","/","a","i">>),
       Some(<<"/","a","/","2">>), Some(<<"/","a","/","1">>) >>

\* hrefs of a listing page with up to three distinct articles and an excluded link
WebHrefPool(cfg) ==
    { Some(<<"/","a","/","1">>),
      Some(<<"/","a","/","2">>),
      Some(<<"a","/","3">>),
      Some(<<"/","x">> \o cfg.exclude_patterns[1] \o <<"y">>) }

\* scrape_web_source before its first statement (pc "start") or not called ("idle")
WebFresh(pc) ==
    /\ webPc = pc
    /\ linkIdx = 0
    /\ seen_urls = {}
    /\ article_links = <<>>
    /\ articles = <<>>
    /\ visited = <<>>
    /\ webBrowser = "none"
    /\ webOutcome = "running"

WebIdle ==
    /\ source_key = "unknown"
    /\ link_elements = <<>>
    /\ max_articles = 0
    /\ WebFresh("idle")

\* link discovery over every listing page up to MaxListing
LinksInputs ==
    /\ \/ /\ source_key \in DOMAIN SITE_CONFIGS
          /\ link_elements \in SeqsUpTo(HrefPool(SITE_CONFIGS[source_key]), MaxListing)
          /\ max_articles \in 0..MaxBudget
       \/ /\ source_key = "scenario"
          /\ link_elements = ScenarioListing
          /\ max_articles = DefaultMaxArticles
       \/ /\ source_key = "unknown"
          /\ link_elements = <<>>
          /\ max_articles = 1
    /\ WebFresh("start")

\* a whole scrape_web_source call
WebInputs ==
    /\ \/ /\ source_key \in DOMAIN SITE_CONFIGS
          /\ link_elements \in SeqsUpTo(WebHrefPool(SITE_CONFIGS[source_key]), MaxItems)
       \/ /\ source_key = "unknown"
          /\ link_elements = <<>>
    /\ max_articles \in 0..MaxBudget
    /\ WebFresh("start")

\* scrape_linkedin_feed before its first statement (pc "start") or not called
LiFresh(pc) ==
    /\ liPc = pc
    /\ pageUrl = <<>>
    /\ landingUrl = PyNone
    /\ loginCalls = 0
    /\ credsFilled = FALSE
    /\ submitted = FALSE
    /\ polls = 0
    /\ logged_in = "unset"
    /\ post_elements = <<>>
    /\ feedQueried = FALSE
    /\ itemsDone = 0
    /\ posts = <<>>
    /\ context = "none"
    /\ closeCalls = 0
    /\ liOutcome = "running"

LiIdle == max_posts = 0 /\ profileDir = "missing" /\ LiFresh("idle")

LiInputs ==
    /\ max_posts \in 0..MaxBudget
    /\ profileDir \in {"missing", "present"}
    /\ LiFresh("start")

\* run_newsbot before its first statement (pc "start") or not called ("idle")
RunFresh(pc) ==
    /\ runPc = pc
    /\ callIdx = 0
    /\ records = [b \in {Buckets[i] : i \in 1..Len(Buckets)} |-> 0]
    /\ scraperCalls = <<>>
    /\ awaiting = "none"
    /\ browsers = <<>>
    /\ formatCalls = <<>>
    /\ summarizeCalls = <<>>
    /\ summaries = <<>>
    /\ combinedCalls = 0
    /\ reportWritten = FALSE
    /\ runOutcome = "running"

RunIdle ==
    /\ api_key_ok = FALSE
    /\ sources_config = [b \in {Buckets[i] : i \in 1..Len(Buckets)} |-> "absent"]
    /\ subreddits = <<>>
    /\ email_set = FALSE
    /\ password_set = FALSE
    /\ source_keys = <<>>
    /\ RunFresh("idle")

SubredditNames == <<"ClaudeAI", "OpenAI", "LocalLLaMA", "artificial">>

\* the configurations of run_newsbot; the settings of a source that is not enabled
\* are never read and are left at one value
RunInputs ==
    /\ api_key_ok \in BOOLEAN
    /\ sources_config \in [{Buckets[i] : i \in 1..Len(Buckets)} ->
                              {"absent", "disabled", "enabled"}]
    /\ \E k \in 0..MaxSubreddits :
          /\ subreddits = SubSeq(SubredditNames, 1, k)
          /\ sources_config["reddit"] # "enabled" => k = 0
    /\ email_set \in BOOLEAN
    /\ password_set \in BOOLEAN
    /\ sources_config["linkedin"] # "enabled" => (email_set /\ password_set)
    /\ source_keys \in SeqsUpTo({"theverge", "not_configured"}, MaxSourceKeys)
    /\ sources_config["web_sources"] # "enabled" => source_keys = <<>>
    /\ RunFresh("start")

\* no content extraction under way
SelIdle ==
    /\ selChain = <<>>
    /\ selDom = <<>>
    /\ selPc = "idle"
    /\ selIdx = 0
    /\ content_parts = <<>>
    /\ page_content = <<>>

\* scrape_subreddit before its first statement (pc "start") or not called ("idle")
RedditFresh(pc) ==
    /\ redditPc = pc
    /\ thingsDone = 0
    /\ redditPosts = <<>>
    /\ redditBrowser = "none"
    /\ redditOutcome = "running"

RedditIdle == redditMaxPosts = 0 /\ things = <<>> /\ RedditFresh("idle")

\* every listing of up to MaxThings elements, every budget from 0
RedditInputs ==
    /\ redditMaxPosts \in 0..MaxBudget
    /\ things \in SeqsUpTo(ThingPool, MaxThings)
    /\ RedditFresh("start")

\* no formatter called
FmtIdle ==
    /\ fmtFn = "none"
    /\ fmtRecords = <<>>
    /\ source_name = <<>>
    /\ fmtPc = "idle"
    /\ fmtOut = <<>>

\* a record with the attributes the formatters read
Formattable(title, author, url, content, subreddit) ==
    [title |-> title, author |-> author, url |-> url, content |-> content,
     source |-> <<"S","r","c">>, category |-> <<"A","I">>, subreddit |-> subreddit,
     score |-> <<"7">>, comments |-> <<"4">>, author_headline |-> <<"C","E","O">>,
     time_ago |-> <<"2","h">>, reactions |-> <<"9">>]

\* the record of the worked scenario and two others
ScenarioRecord ==
    Formattable(<<"X">>, <<"Y">>, <<"h","t","t","p","s",":","/","/","s","/","1">>,
                <<"Z">>, <<"r","1">>)
FormatRecordPool ==
    { ScenarioRecord,
      Formattable(<<"T","2">>, <<"A","2">>, <<"h","t","t","p","s",":","/","/","s","/","2">>,
                  <<"C","2">>, <<"r","1">>),
      Formattable(<<"T","3">>, <<"A","3">>, <<"h","t","t","p","s",":","/","/","s","/","3">>,
                  <<"C","3">>, <<"r","2">>) }

\* a call of one of the five formatters with a list of up to MaxFormatted records
FmtInputs ==
    /\ fmtFn \in {"web_news", "reddit", "linkedin", "futurism", "theneuron"}
    /\ fmtRecords \in SeqsUpTo(FormatRecordPool, MaxFormatted)
    /\ source_name = IF fmtFn = "web_news" THEN <<"T","e","s","t">> ELSE <<>>
    /\ fmtPc = "call"
    /\ fmtOut = <<>>

\* create_executive_briefing before its first statement or not called
BriefFresh(pc) ==
    /\ briefPc = pc
    /\ news_context = <<>>
    /\ total_items = 0
    /\ remote = PyNone
    /\ caught = PyNone
    /\ briefResult = [raised |-> FALSE, value |-> <<>>]

BriefIdle == all_news = <<>> /\ BriefFresh("idle")

\* the blocks of up to MaxNews sources: empty, blank, or a heading with one entry
NewsBlocks ==
    { <<>>, <<" ","\n">>, <<"#"," ","N","\n","\n","#","#"," ","1",".">> }

BriefInputs ==
    /\ all_news \in SeqsUpTo([source : {<<"R">>, <<"W">>}, posts_text : NewsBlocks],
                             MaxNews)
    /\ \A i, j \in 1..Len(all_news) : i # j => all_news[i].source # all_news[j].source
    /\ BriefFresh("prompt")

----------------------------------------------------------------------------
(* sources/web_news.py lines 134-165: the body of one iteration of the article
   loop, on detail pages with an author element and paragraphs of every length *)

ArticleUrl == <<"h","t","t","p","s",":","/","/","s","/","a">>

\* inner texts of the title match
TitleTexts == {PyNone, Some(<<"H","i">>), Some(<<" ","H","i","\n">>)}

\* inner texts of the author match: none, empty, white space only, short, padded,
\* just below and at the length limit
AuthorTexts ==
    {PyNone, Some(<<>>), Some(<<" ">>), Some(<<"A","l">>), Some(<<" ","A","l"," ">>),
     Some(Rep("a", MaxAuthorLen - 1)), Some(Rep("a", MaxAuthorLen))}

\* inner texts of a content match: at the threshold, just above it, above it only
\* with its trailing white space, white space only, longer than the excerpt, longer
\* than the content limit
ParaTexts ==
    {Rep("x", MinFragmentLen), Rep("x", MinFragmentLen + 1),
     Rep("x", MinFragmentLen) \o <<" ">>, Rep(" ", MinFragmentLen + 1),
     Rep("y", ExcerptLen + 1), Rep("z", MaxContentLen + 1)}

\* pages of up to MaxParas paragraphs, and one with more than MaxParagraphs
ArticlePages ==
    {Page(FALSE, t, a, c) :
        t \in TitleTexts, a \in AuthorTexts,
        c \in SeqsUpTo(ParaTexts, MaxParas)
                \cup {[k \in 1..(MaxParagraphs + 1) |-> Rep("x", MinFragmentLen + 1)]}}

ArticleIdle ==
    /\ artKey = "none" /\ artPage = PageRaises /\ artPc = "idle"
    /\ artParts = <<>> /\ artOut = <<>>

ArticleInputs ==
    /\ artKey \in DOMAIN SITE_CONFIGS
    /\ artPage \in ArticlePages
    /\ artPc = "loaded"
    /\ artParts = <<>> /\ artOut = <<>>

\* lines 134-165: title, author, content_parts, and the record appended
ArticleExtract ==
    /\ artPc = "loaded"
    /\ artParts' = ContentParts(artPage)
    /\ artOut' = ExtractArticle(SITE_CONFIGS[artKey], ArticleUrl, artPage)
    /\ artPc' = "done"
    /\ UNCHANGED <<artKey, artPage>>
    /\ UNCHANGED <<webVars, liVars, runVars, notArticle>>

----------------------------------------------------------------------------
(* sources/futurism.py: scrape_futurism, link discovery (lines 42-65) *)

Futurism == <<"h","t","t","p","s",":","/","/","f","u","t","u","r","i","s","m",".","c","o","m">>
FuturismHost == <<"f","u","t","u","r","i","s","m",".","c","o","m">>
CategoryPattern == <<"/","c","a","t","e","g","o","r","y","/">>
TagPattern == <<"/","t","a","g","/">>

\* hrefs a card may carry (the selectors of lines 45 and 49 match only anchors
\* whose href contains "/"): a path, the same page as an absolute URL, another
\* path, a category and a tag page, a foreign site
CardHrefs ==
    {Some(<<"/","x">>), Some(Futurism \o <<"/","x">>), Some(<<"/","y">>),
     Some(<<"/","c","a","t","e","g","o","r","y","/","a">>), Some(<<"/","t","a","g","/","t">>),
     Some(<<"h","t","t","p","s",":","/","/","o",".","c","o","m","/","z">>)}

FutFresh(pc) ==
    /\ futPc = pc /\ cardIdx = 0 /\ futSeen = {} /\ futLinks = <<>>
    /\ futVisited = <<>>

FutIdle == futMax = 0 /\ cards = <<>> /\ FutFresh("idle")

\* the listing page is loaded and queried for the cards (lines 37-49)
FutInputs ==
    /\ futMax \in 0..MaxBudget
    /\ cards \in SeqsUpTo(CardHrefs, MaxCards)
    /\ FutFresh("collect")

\* lines 56-57: a relative href is completed with the site
FutResolve(href) == IF StartsWith(href, <<"/">>) THEN Futurism \o href ELSE href

\* line 54: the href is looked up in seen_urls as written, before it is resolved
FutIsNew(href, seen) ==
    /\ Truthy(href)
    /\ ~Contains(href.val, CategoryPattern)
    /\ href.val \notin seen

\* line 58: the resolved URL is on the site and neither a category nor a tag page
FutAccepts(url) ==
    /\ Contains(url, FuturismHost)
    /\ ~Contains(url, CategoryPattern)
    /\ ~Contains(url, TagPattern)

\* lines 52-62: one iteration of the loop over cards
FutCollectStep ==
    /\ futPc = "collect"
    /\ cardIdx < Len(cards)
    /\ cardIdx' = cardIdx + 1
    /\ LET href == cards[cardIdx + 1]
           url == FutResolve(href.val)
       IN IF FutIsNew(href, futSeen) /\ FutAccepts(url)
          THEN /\ futSeen' = futSeen \cup {url}                        \* line 59
               /\ futLinks' = Append(futLinks, url)                    \* line 60
               /\ futPc' = IF Len(futLinks) + 1 >= futMax              \* line 61
                           THEN "visit" ELSE "collect"
          ELSE UNCHANGED <<futSeen, futLinks, futPc>>
    /\ UNCHANGED <<futMax, cards, futVisited>>
    /\ UNCHANGED <<webVars, liVars, runVars, notFut>>

\* the loop over cards is exhausted
FutCollectEnd ==
    /\ futPc = "collect"
    /\ cardIdx = Len(cards)
    /\ futPc' = "visit"
    /\ UNCHANGED <<futMax, cards, cardIdx, futSeen, futLinks, futVisited>>
    /\ UNCHANGED <<webVars, liVars, runVars, notFut>>

\* lines 65-67: one iteration of the loop over article_links[:max_articles]: the
\* page is navigated to the url
FutVisit ==
    /\ futPc = "visit"
    /\ Len(futVisited) < Len(Take(futLinks, futMax))
    /\ futVisited' = Append(futVisited, futLinks[Len(futVisited) + 1])
    /\ UNCHANGED <<futMax, cards, futPc, cardIdx, futSeen, futLinks>>
    /\ UNCHANGED <<webVars, liVars, runVars, notFut>>

\* the loop over article_links[:max_articles] is exhausted
FutVisitEnd ==
    /\ futPc = "visit"
    /\ Len(futVisited) = Len(Take(futLinks, futMax))
    /\ futPc' = "done"
    /\ UNCHANGED <<futMax, cards, cardIdx, futSeen, futLinks, futVisited>>
    /\ UNCHANGED <<webVars, liVars, runVars, notFut>>

AuxIdle == SelIdle /\ RedditIdle /\ FmtIdle /\ BriefIdle /\ ArticleIdle /\ FutIdle

\* inner texts of a paragraph: two long ones and one below the length threshold
ParagraphTexts == {Rep("x", 31), Rep("y", 31), <<"s">>}

\* detail pages of up to MaxDom paragraphs, each matched by any of the first two
\* alternatives of the chain, for every configured site and for The Neuron
SelInputs ==
    /\ \E fn \in {"web", "neuron"} :
          /\ selPc = fn
          /\ IF fn = "web"
             THEN \E key \in DOMAIN ContentSelectors : selChain = ContentSelectors[key]
             ELSE selChain = NeuronSelectors
    /\ selDom \in SeqsUpTo([text : ParagraphTexts,
                            matches : SUBSET {selChain[1], selChain[2]}], MaxDom)
    /\ selIdx = 0
    /\ content_parts = <<>>
    /\ page_content = <<>>

LinksInit == LinksInputs /\ LiIdle /\ RunIdle /\ AuxIdle

LinksNext ==
    \/ WebUnknownSource
    \/ WebLaunch
    \/ WebGotoListing
    \/ WebCollectStep
    \/ WebCollectEnd

\* link discovery of scrape_web_source over every listing page
SpecLinks == LinksInit /\ [][LinksNext]_vars

WebInit == WebInputs /\ LiIdle /\ RunIdle /\ AuxIdle

WebNext ==
    \/ LinksNext
    \/ WebVisit
    \/ WebVisitEnd
    \/ WebClose

\* a call of scrape_web_source
SpecWeb == WebInit /\ [][WebNext]_vars

LiInit == WebIdle /\ LiInputs /\ RunIdle /\ AuxIdle

LiNext ==
    \/ LiLaunch
    \/ LiGotoFeed
    \/ LiCheckLogin
    \/ LoginGoto
    \/ LoginForm
    \/ LoginFill
    \/ LoginSubmit
    \/ LoginWait
    \/ ChallengePoll
    \/ ChallengeExhausted
    \/ LoginReturn
    \/ LiLoginFailed
    \/ LiFeedQuery
    \/ LiItem
    \/ LiItemsEnd
    \/ LiClose

\* a call of scrape_linkedin_feed
SpecLI == LiInit /\ [][LiNext]_vars

RunInit == WebIdle /\ LiIdle /\ RunInputs /\ AuxIdle

RunNext ==
    \/ RunStart
    \/ RunRedditSkip
    \/ RunRedditCall
    \/ RunRedditReturn
    \/ RunRedditEnd
    \/ RunLinkedInSkip
    \/ RunLinkedInCall
    \/ RunLinkedInReturn
    \/ RunFuturismSkip
    \/ RunFuturismCall
    \/ RunFuturismReturn
    \/ RunNeuronSkip
    \/ RunNeuronCall
    \/ RunNeuronReturn
    \/ RunWebSkip
    \/ RunWebUnknownKey
    \/ RunWebCall
    \/ RunWebReturn
    \/ RunWebEnd
    \/ RunReport

\* a run of run_newsbot
SpecRun == RunInit /\ [][RunNext]_vars

SelInit ==
    /\ WebIdle /\ LiIdle /\ RunIdle /\ SelInputs /\ RedditIdle /\ FmtIdle /\ BriefIdle
    /\ ArticleIdle /\ FutIdle

SelNext ==
    \/ WebContentQuery
    \/ NeuronSelectorStep
    \/ NeuronJoin

\* the content extraction of one detail page
SpecSelect == SelInit /\ [][SelNext]_vars

RedditInit ==
    /\ WebIdle /\ LiIdle /\ RunIdle /\ SelIdle /\ RedditInputs /\ FmtIdle /\ BriefIdle
    /\ ArticleIdle /\ FutIdle

RedditNext ==
    \/ RedditLaunch
    \/ RedditGoto
    \/ RedditThing
    \/ RedditThingsEnd
    \/ RedditClose

\* a call of scrape_subreddit
SpecReddit == RedditInit /\ [][RedditNext]_vars

\* a call of one of the three scrapers that take an item budget
BudgetInit == WebInit \/ LiInit \/ RedditInit

BudgetNext == WebNext \/ LiNext \/ RedditNext

SpecBudget == BudgetInit /\ [][BudgetNext]_vars

FmtInit ==
    /\ WebIdle /\ LiIdle /\ RunIdle /\ SelIdle /\ RedditIdle /\ FmtInputs /\ BriefIdle
    /\ ArticleIdle /\ FutIdle

FmtNext ==
    \/ FormatWebNews
    \/ FormatReddit
    \/ FormatLinkedIn
    \/ FormatFuturism
    \/ FormatNeuron

\* a call of one of the formatters
SpecFormat == FmtInit /\ [][FmtNext]_vars

BriefInit ==
    /\ WebIdle /\ LiIdle /\ RunIdle /\ SelIdle /\ RedditIdle /\ FmtIdle /\ BriefInputs
    /\ ArticleIdle /\ FutIdle

BriefNext ==
    \/ BriefPrompt
    \/ BriefPost
    \/ BriefRaiseForStatus
    \/ BriefJson

\* a call of create_executive_briefing
SpecBriefing == BriefInit /\ [][BriefNext]_vars

ArticleInit ==
    /\ WebIdle /\ LiIdle /\ RunIdle /\ SelIdle /\ RedditIdle /\ FmtIdle /\ BriefIdle
    /\ ArticleInputs /\ FutIdle

ArticleNext == ArticleExtract

\* one iteration of the article loop of scrape_web_source
SpecArticle == ArticleInit /\ [][ArticleNext]_vars

FutInit ==
    /\ WebIdle /\ LiIdle /\ RunIdle /\ SelIdle /\ RedditIdle /\ FmtIdle /\ BriefIdle
    /\ ArticleIdle /\ FutInputs

FutNext ==
    \/ FutCollectStep
    \/ FutCollectEnd
    \/ FutVisit
    \/ FutVisitEnd

\* the link discovery of a call of scrape_futurism
SpecFuturism == FutInit /\ [][FutNext]_vars

\* a call of one of the two scrapers
ScrapeInit == WebInit \/ LiInit

ScrapeNext == WebNext \/ LiNext

SpecScrape == ScrapeInit /\ [][ScrapeNext]_vars

\* any of the three, the web scraper on one configured site
OrderInit == (WebInit /\ source_key \in {"theverge", "unknown"}) \/ LiInit \/ RunInit

OrderNext == WebNext \/ LiNext \/ RunNext

SpecOrder == OrderInit /\ [][OrderNext]_vars

\* any of the three
Init == WebInit \/ LiInit \/ RunInit

Next == WebNext \/ LiNext \/ RunNext

Spec == Init /\ [][Next]_vars

----------------------------------------------------------------------------
(* Link discovery: claims *)

\* the hrefs walked so far that are neither None nor empty, resolved, in DOM order
WalkedResolved ==
    LET walked == SubSeq(link_elements, 1, linkIdx)
        kept == SelectSeq(walked, LAMBDA e : e.some /\ e.val # <<>>)
    IN [k \in 1..Len(kept) |->
          IF kept[k].val[1] = "/"
          THEN Origin(config.base_url) \o kept[k].val ELSE kept[k].val]

HasExcludedPattern(url) ==
    \E k \in 1..Len(config.exclude_patterns) :
        \E i \in 1..Len(url) :
            /\ i + Len(config.exclude_patterns[k]) - 1 <= Len(url)
            /\ \A d \in 1..Len(config.exclude_patterns[k]) :
                   url[i + d - 1] = config.exclude_patterns[k][d]

\* C1: for every descriptor and every max_articles >= 1 the link list holds at most
\* max_articles entries, no URL twice and no URL that has an exclude pattern of the
\* descriptor as a substring, at every point of the discovery loop.
C1_LinksBoundedDistinctFiltered ==
    (source_key \in DOMAIN Registry /\ max_articles >= 1) =>
        /\ Len(article_links) <= max_articles
        /\ \A i, j \in 1..Len(article_links) :
               i # j => article_links[i] # article_links[j]
        /\ \A i \in 1..Len(article_links) : ~HasExcludedPattern(article_links[i])

\* C1 witness: discovery stopped at the budget after it walked a repeated and an
\* excluded href
C1_Witness ==
    /\ source_key \in DOMAIN SITE_CONFIGS
    /\ webPc = "visit"
    /\ max_articles >= 1
    /\ Len(article_links) = max_articles
    /\ \E i \in 1..Len(WalkedResolved) : HasExcludedPattern(WalkedResolved[i])
    /\ \E i, j \in 1..Len(WalkedResolved) :
           i < j /\ WalkedResolved[i] = WalkedResolved[j]

\* the reference of C10 over the whole listing: first occurrences of the resolved
\* non-empty hrefs that carry no exclude pattern, in DOM order
ReferenceLinks ==
    LET all == SelectSeq(link_elements, LAMBDA e : e.some /\ e.val # <<>>)
        res == [k \in 1..Len(all) |->
                  IF all[k].val[1] = "/"
                  THEN Origin(config.base_url) \o all[k].val ELSE all[k].val]
        idx == [k \in 1..Len(res) |-> k]
        keep == SelectSeq(idx, LAMBDA k :
                    /\ ~HasExcludedPattern(res[k])
                    /\ \A j \in 1..(k - 1) : res[j] # res[k])
    IN [k \in 1..Len(keep) |-> res[keep[k]]]

\* C10: when discovery has ended, the links that are visited (article_links cut to
\* max_articles, line 129) are the first max_articles reference links, in listing
\* order; for max_articles >= 1 article_links itself is that list; the scenario
\* listing gives exactly origin + "/a/1", origin + "/a/2".
C10_DiscoveryEqualsReference ==
    (webPc = "visit" /\ source_key \in DOMAIN Registry) =>
        /\ Take(article_links, max_articles) = Take(ReferenceLinks, max_articles)
        /\ max_articles >= 1 => article_links = Take(ReferenceLinks, max_articles)
        /\ source_key = "scenario" =>
               article_links = << <<"h","t","t","p","s",":","/","/","s","/","a","/","1">>,
                                  <<"h","t","t","p","s",":","/","/","s","/","a","/","2">> >>

\* C10 witness: the scenario listing has been walked to its end
C10_Witness ==
    /\ source_key = "scenario"
    /\ webPc = "visit"
    /\ linkIdx = Len(link_elements)
    /\ Len(article_links) = 2

----------------------------------------------------------------------------
(* Article extraction and item loops: claims *)

\* C2: every WebArticle in the result has a non-empty title field and a non-empty
\* content field.
C2_RecordsHaveTitleAndBody ==
    \A i \in 1..Len(articles) :
        articles[i].title # <<>> /\ articles[i].content # <<>>

NonBlank(text) == \E i \in 1..Len(text) : text[i] \notin {" ", "\n", "\t"}

\* a detail page that loads and carries a title and a long paragraph of real text
ClearlyExtractable(page) ==
    /\ ~page.raises
    /\ page.title_elem.some /\ NonBlank(page.title_elem.val)
    /\ \E k \in 1..Len(page.content_elems) :
           k <= 12 /\ Len(page.content_elems[k]) > 30 /\ NonBlank(page.content_elems[k])

\* a feed item that can be read and has body text
ClearlyReadable(item) ==
    ~item.raises /\ item.content_elem.some /\ NonBlank(item.content_elem.val)

\* the entries of seq at the positions other than k, in order
Without(seq, k) ==
    [i \in 1..(Len(seq) - 1) |-> IF i < k THEN seq[i] ELSE seq[i + 1]]

\* C3: when the call is over, no exception has escaped and every item within the
\* budget has been processed; when exactly one of these N items raised and the
\* others are extractable, the result holds exactly the N-1 records of the others,
\* in order (scrape_web_source per article, scrape_linkedin_feed per feed item).
C3_ItemFailureIsolated ==
    /\ (webPc = "done" /\ webBrowser = "closed") =>
          LET links == SubSeq(article_links, 1,
                              IF Len(article_links) < max_articles
                              THEN Len(article_links) ELSE max_articles)
          IN /\ webOutcome = "returned"
             /\ Len(visited) = Len(links)
             /\ \A k \in 1..Len(links) :
                   ( /\ visited[k].raises
                     /\ \A j \in 1..Len(links) : j # k => ClearlyExtractable(visited[j]) )
                   => /\ Len(articles) = Len(links) - 1
                      /\ [i \in 1..Len(articles) |-> articles[i].url] = Without(links, k)
    /\ (liPc = "done" /\ feedQueried) =>
          LET items == SubSeq(post_elements, 1,
                              IF Len(post_elements) < max_posts
                              THEN Len(post_elements) ELSE max_posts)
          IN /\ liOutcome = "returned"
             /\ itemsDone = Len(items)
             /\ \A k \in 1..Len(items) :
                   ( /\ items[k].raises
                     /\ \A j \in 1..Len(items) : j # k => ClearlyReadable(items[j]) )
                   => Len(posts) = Len(items) - 1

\* C3 witness: the first of three articles raised, the two after it were extracted
C3_Witness ==
    /\ webPc = "done"
    /\ Len(visited) = 3
    /\ visited[1].raises
    /\ ClearlyExtractable(visited[2]) /\ ClearlyExtractable(visited[3])
    /\ Len(articles) = 2

----------------------------------------------------------------------------
(* Login state machine: claims *)

\* the landing page is a login page: its URL, lower-cased, contains "login" or
\* "authwall"
RedirectedToLogin(url) ==
    LET low == Lower(url)
    IN \E i \in 1..Len(low) :
          \/ i + 4 <= Len(low) /\ SubSeq(low, i, i + 4) = <<"l","o","g","i","n">>
          \/ i + 7 <= Len(low)
               /\ SubSeq(low, i, i + 7) = <<"a","u","t","h","w","a","l","l">>

InLogin == liPc \in {"login_goto", "login_form", "login_fill", "login_submit",
                     "login_wait", "challenge", "login_ret", "login_failed"}

\* C4: login_linkedin is entered, and credentials are typed or submitted, only after
\* the landing-page check has read a login URL; when the landing page is no login
\* page the call goes straight on to the feed with no login at all.
C4_SessionReuse ==
    /\ (loginCalls > 0 \/ credsFilled \/ submitted \/ InLogin \/ logged_in # "unset")
          => (landingUrl.some /\ RedirectedToLogin(landingUrl.val))
    /\ (landingUrl.some /\ ~RedirectedToLogin(landingUrl.val))
          => /\ loginCalls = 0 /\ ~credsFilled /\ ~submitted
             /\ liPc \in {"feed", "items", "close", "done"}

\* C4 witness: the landing page was the feed and posts are being read, no login made
C4_Witness ==
    /\ landingUrl = Some(FeedUrl)
    /\ liPc = "items"
    /\ post_elements # <<>>
    /\ loginCalls = 0

\* C5: the challenge wait is entered from the submitted login on a challenge URL;
\* each of its iterations counts one poll and there are never more than 60; when the
\* 60th poll did not find the feed, login_linkedin returns False.
C5_ChallengeWaitBounded ==
    /\ [](/\ polls <= 60
          /\ liPc = "challenge" => submitted
          /\ (liPc = "login_ret" /\ polls = 60 /\ ~Contains(pageUrl, <<"f","e","e","d">>))
                => logged_in = "False")
    /\ [][/\ (liPc = "challenge" /\ liPc' = "challenge") => polls' = polls + 1
          /\ (liPc = "challenge" /\ liPc' # "challenge") =>
                /\ liPc' = "login_ret"
                /\ logged_in' \in {"True", "False"}
                /\ logged_in' = "True" => Contains(pageUrl', <<"f","e","e","d">>)
          /\ (liPc # "challenge" /\ liPc' = "challenge") =>
                /\ liPc = "login_wait"
                /\ polls' = 0
                /\ \/ Contains(pageUrl', <<"c","h","e","c","k","p","o","i","n","t">>)
                   \/ Contains(pageUrl', <<"s","e","c","u","r","i","t","y">>)
                   \/ Contains(pageUrl', <<"c","h","a","l","l","e","n","g","e">>)]_vars

\* C5 witness: login_linkedin returns False after 60 polls
C5_Witness ==
    /\ liPc = "login_ret"
    /\ polls = 60
    /\ logged_in = "False"

\* C6: once login_linkedin has returned False, the call queries no feed, returns the
\* empty list and raises nothing.
C6_FailedLoginReturnsEmpty ==
    logged_in = "False" =>
        /\ liPc \in {"login_ret", "login_failed", "close", "done"}
        /\ ~feedQueried
        /\ posts = <<>>
        /\ liOutcome # "raised"
        /\ liPc = "done" => liOutcome = "returned"

\* C6 witness: the call has returned after a failed login
C6_Witness ==
    /\ liPc = "done"
    /\ logged_in = "False"
    /\ liOutcome = "returned"
    /\ posts = <<>>

----------------------------------------------------------------------------
(* Orchestrator: claims *)

BucketSet == {"reddit", "linkedin", "futurism", "theneuron", "web_sources"}

InSummaries(b) == \E i \in 1..Len(summaries) : summaries[i] = b

\* the section of source b lies behind the run
SectionDone(b) ==
    LET order == <<"start", "reddit", "linkedin", "futurism", "theneuron",
                   "web_sources", "report", "done">>
        pos(x) == CHOOSE i \in 1..Len(order) : order[i] = x
    IN pos(runPc) > pos(b)

\* C7: no exception of a scraper call ends run_newsbot.
C7_ScraperFailureContained == runOutcome # "raised"

\* C8: summaries holds an entry only for an enabled source whose scraper calls
\* returned records; once the section of a source is over, it holds the entry if and
\* only if the source is enabled and its calls returned at least one record; no
\* formatter call gets an empty list.
C8_SummariesIffRecords ==
    /\ \A b \in BucketSet :
          /\ InSummaries(b) => (sources_config[b] = "enabled" /\ records[b] > 0)
          /\ SectionDone(b) =>
                (InSummaries(b) <=> (sources_config[b] = "enabled" /\ records[b] > 0))
    /\ \A i \in 1..Len(formatCalls) : formatCalls[i][2] > 0

\* C8 witness: a finished run with an enabled source that returned nothing, beside
\* a source that has its entry
C8_Witness ==
    /\ runPc = "done"
    /\ runOutcome = "returned"
    /\ \E b \in BucketSet :
          sources_config[b] = "enabled" /\ records[b] = 0 /\ b \in {"futurism", "reddit"}
    /\ \E b \in BucketSet : InSummaries(b)

\* C9: every scraper call is one of an enabled source; when no source is enabled
\* there is no scraper call, no formatter call, no summarize_posts call, no
\* create_combined_summary call, no summary and no report.
C9_DisabledSourcesUntouched ==
    /\ \A i \in 1..Len(scraperCalls) : sources_config[scraperCalls[i]] = "enabled"
    /\ (\A b \in BucketSet : sources_config[b] # "enabled") =>
          /\ scraperCalls = <<>>
          /\ formatCalls = <<>>
          /\ summarizeCalls = <<>>
          /\ summaries = <<>>
          /\ combinedCalls = 0
          /\ ~reportWritten

\* C9 witness: a run with absent and disabled sources only has returned
C9_Witness ==
    /\ runPc = "done"
    /\ runOutcome = "returned"
    /\ api_key_ok
    /\ \A b \in BucketSet : sources_config[b] # "enabled"
    /\ \E b \in BucketSet : sources_config[b] = "absent"
    /\ \E b \in BucketSet : sources_config[b] = "disabled"

----------------------------------------------------------------------------
(* Link discovery: absolute URLs *)

\* a URL with a scheme and a host
IsAbsolute(url) ==
    LET k == FindFrom(url, <<":","/","/">>, 1)
    IN /\ k > 1
       /\ k + 3 <= Len(url)
       /\ url[k + 3] # "/"

\* C11: every URL of the discovered link list is absolute (scheme and host), and so
\* is the url field of every WebArticle.
C11_LinksAbsolute ==
    /\ \A i \in 1..Len(article_links) : IsAbsolute(article_links[i])
    /\ \A i \in 1..Len(articles) : IsAbsolute(articles[i].url)

\* C12: a visited detail page on which the title selector matched no element has no
\* WebArticle in the result.
C12_NoTitleNoRecord ==
    \A k \in 1..Len(visited) :
        ~visited[k].title_elem.some =>
            \A i \in 1..Len(articles) : articles[i].url # article_links[k]

----------------------------------------------------------------------------
(* Selector chains: claims *)

\* the elements matched by the first alternative of the chain that matches at least
\* one element of the page
FirstMatchElems(chain, dom) ==
    LET hit == {i \in 1..Len(chain) : \E k \in 1..Len(dom) : chain[i] \in dom[k].matches}
    IN IF hit = {} THEN <<>>
       ELSE LET first == CHOOSE i \in hit : \A j \in hit : i <= j
            IN SelectSeq(dom, LAMBDA elem : chain[first] \in elem.matches)

\* C13: the joined content is built from the elements of the first matching
\* alternative only: every fragment of the content is the stripped text of such an
\* element, in scrape_web_source and in scrape_theneuron.
C13_FirstMatchWins ==
    selPc = "joined" =>
        \A k \in 1..Len(content_parts) :
            \E e \in 1..Len(FirstMatchElems(selChain, selDom)) :
                content_parts[k] = Strip(FirstMatchElems(selChain, selDom)[e].text)

----------------------------------------------------------------------------
(* Item budget: claims *)

\* C14: the lists of scrape_web_source, scrape_linkedin_feed and scrape_subreddit
\* never hold more records than the budget, and no more items are processed than the
\* budget allows (with budget 0: no record, no detail page visited).
C14_ResultWithinBudget ==
    /\ Len(articles) <= max_articles /\ Len(visited) <= max_articles
    /\ Len(posts) <= max_posts /\ itemsDone <= max_posts
    /\ Len(redditPosts) <= redditMaxPosts /\ thingsDone <= redditMaxPosts

\* C14 witness: scrape_web_source has returned with budget 0 from a listing that
\* has links: no page visited, no record
C14_Witness ==
    /\ webPc = "done" /\ webOutcome = "returned"
    /\ max_articles = 0
    /\ article_links # <<>>
    /\ visited = <<>> /\ articles = <<>>

----------------------------------------------------------------------------
(* Listing failure: claims *)

\* C15: a step out of the listing navigation either starts link collection or goes
\* to the finally block with no record and no visit; from there the only step closes
\* the browser and returns the list as it is; a call that ends with an empty link
\* list has returned the empty list, visited no detail page and closed the browser.
C15_ListingFailureReturnsEmpty ==
    /\ []((webPc = "done" /\ webBrowser # "none" /\ article_links = <<>>) =>
            /\ webOutcome = "returned"
            /\ articles = <<>>
            /\ visited = <<>>
            /\ webBrowser = "closed")
    /\ [][/\ (webPc = "goto" /\ webPc' # "collect") =>
                /\ webPc' = "close"
                /\ webOutcome' = "running"
                /\ articles' = <<>> /\ visited' = <<>> /\ article_links' = <<>>
          /\ webPc = "close" =>
                /\ webPc' = "done"
                /\ webBrowser' = "closed"
                /\ webOutcome' = "returned"
                /\ articles' = articles /\ visited' = visited]_vars

\* C15 witness: the call has returned although the listing page, which has links,
\* never got into the collection loop
C15_Witness ==
    /\ webPc = "done"
    /\ link_elements # <<>>
    /\ linkIdx = 0
    /\ max_articles >= 1
    /\ webBrowser = "closed"
    /\ webOutcome = "returned"
    /\ articles = <<>>

----------------------------------------------------------------------------
(* Feed posts: claims *)

\* C16: every LinkedInPost of the result has a content of 1 to 500 characters that
\* neither starts nor ends with whitespace, and the result holds one post for each
\* processed item that was read without failure and has a body element with text
\* other than whitespace, and none for any other item.
C16_PostsHaveContent ==
    /\ \A i \in 1..Len(posts) :
          LET c == posts[i].content
          IN /\ c # <<>>
             /\ Len(c) <= 500
             /\ c[1] \notin {" ", "\n", "\t"}
    /\ Len(posts) = Cardinality({k \in 1..itemsDone : ClearlyReadable(post_elements[k])})

\* C16 witness: the call is over; the feed had an item without body element, an item
\* with blank text and an item with more than 500 characters, and only the last one
\* is in the result, cut to 500
C16_Witness ==
    /\ liPc = "done"
    /\ itemsDone = 3
    /\ \E k \in 1..3 : ~post_elements[k].content_elem.some /\ ~post_elements[k].raises
    /\ \E k \in 1..3 : post_elements[k] = ItemBlank
    /\ Len(posts) = 1
    /\ Len(posts[1].content) = 500

----------------------------------------------------------------------------
(* Ordering: claims *)

\* a is b with some entries left out, the others in the order of b
RECURSIVE IsSubsequence(_, _)
IsSubsequence(a, b) ==
    IF a = <<>> THEN TRUE
    ELSE IF b = <<>> THEN FALSE
    ELSE IF a[1] = b[1] THEN IsSubsequence(Tail(a), Tail(b))
    ELSE IsSubsequence(a, Tail(b))

\* what identifies the post of a feed item: its stripped, cut body text and whether
\* it has a URL (no text for an item that cannot be read)
ItemKey(item) ==
    IF item.raises \/ ~item.content_elem.some THEN <<<<>>, FALSE>>
    ELSE <<Take(Strip(item.content_elem.val), 500), item.urn.some>>

\* C17: the URLs of the records of scrape_web_source are a subsequence of the link
\* list, which is a subsequence of the listing's hrefs in DOM order; the posts of
\* scrape_linkedin_feed are a subsequence of the feed items processed, in feed
\* order; the keys of summaries are a subsequence of Reddit, LinkedIn, Futurism,
\* The Neuron, Web News.
C17_OrderPreserved ==
    /\ IsSubsequence([i \in 1..Len(articles) |-> articles[i].url], article_links)
    /\ IsSubsequence(article_links, WalkedResolved)
    /\ IsSubsequence([i \in 1..Len(posts) |-> <<posts[i].content, posts[i].url # <<>>>>],
                     [k \in 1..itemsDone |-> ItemKey(post_elements[k])])
    /\ IsSubsequence(summaries,
                     <<"reddit", "linkedin", "futurism", "theneuron", "web_sources">>)

\* C17 witness: a finished run whose aggregate has three entries with a gap
C17_Witness ==
    /\ runPc = "done"
    /\ runOutcome = "returned"
    /\ summaries = <<"reddit", "futurism", "web_sources">>

----------------------------------------------------------------------------
(* Formatters: claims *)

\* the needles occur in the text one after the other, without overlap
RECURSIVE OccurInOrder(_, _, _)
OccurInOrder(text, needles, from) ==
    IF needles = <<>> THEN TRUE
    ELSE LET n == needles[1]
             at == {i \in from..(Len(text) - Len(n) + 1) :
                       \A k \in 1..Len(n) : text[i + k - 1] = n[k]}
         IN /\ at # {}
            /\ OccurInOrder(text, Tail(needles),
                            (CHOOSE i \in at : \A j \in at : i <= j) + Len(n))

RECURSIVE Flatten(_)
Flatten(seqs) == IF seqs = <<>> THEN <<>> ELSE seqs[1] \o Flatten(Tail(seqs))

Numeral(i) == <<"#", <<"1","2","3","4","5","6","7","8","9">>[i]>>

\* C18: for a non-empty list the block of format_articles_for_llm starts with the
\* heading that names the source; after it come, for the records in input order,
\* the number of the entry (1..n), its title, its author, its URL and its content,
\* one after the other.
C18_FormatOrder ==
    (fmtFn = "web_news" /\ fmtPc = "returned" /\ fmtRecords # <<>>) =>
        /\ SubSeq(fmtOut, 1, 2 + Len(source_name)) = <<"#", " ">> \o source_name
        /\ OccurInOrder(fmtOut,
              <<source_name>> \o
              Flatten([i \in 1..Len(fmtRecords) |->
                  <<Numeral(i), fmtRecords[i].title, fmtRecords[i].author,
                    fmtRecords[i].url, fmtRecords[i].content>>]),
              1)

\* C18 witness: the worked scenario, the record {X, Y, https://s/1, Z} formatted
\* under the source name Test
C18_Witness ==
    /\ fmtFn = "web_news"
    /\ fmtPc = "returned"
    /\ source_name = <<"T","e","s","t">>
    /\ Len(fmtRecords) = 1
    /\ fmtRecords[1].title = <<"X">> /\ fmtRecords[1].author = <<"Y">>
    /\ fmtRecords[1].url = <<"h","t","t","p","s",":","/","/","s","/","1">>
    /\ fmtRecords[1].content = <<"Z">>

\* index of the first occurrence of the needle in the text, 0 when there is none
FirstIndex(text, n) ==
    LET at == {i \in 1..(Len(text) - Len(n) + 1) :
                  \A k \in 1..Len(n) : text[i + k - 1] = n[k]}
    IN IF at = {} THEN 0 ELSE CHOOSE i \in at : \A j \in at : i <= j

\* the instruction to keep the URLs as source links, as far as all adapters word it
\* alike
UrlInstruction == <<"-","U","R","L","s"," ","i","n"," ","d","e","i","n","e","r"," ","Z","u","s","a","m","m","e","n","f","a","s","s","u","n","g"," ","a","l","s"," ","Q","u","e","l","l","e","n","l","i","n","k","s","!">>

\* C19: for a non-empty list the block of every formatter has the instruction to
\* keep the URLs as source links after the heading line and before the first entry.
C19_UrlInstructionPresent ==
    (fmtPc = "returned" /\ fmtRecords # <<>>) =>
        LET heading == FirstIndex(fmtOut, <<"\n">>)
            instruction == FirstIndex(fmtOut, UrlInstruction)
            entry == FirstIndex(fmtOut, <<"\n", "#", "#", " ">>)
        IN /\ instruction # 0
           /\ heading < instruction
           /\ instruction < entry

----------------------------------------------------------------------------
(* Executive briefing: claims *)

StatusDigits(code) ==
    LET d == <<"0","1","2","3","4","5","6","7","8","9">>
    IN <<d[(code \div 100) + 1], d[((code \div 10) % 10) + 1], d[(code % 10) + 1]>>

\* C20: create_executive_briefing never lets an exception escape; once it has
\* returned, the value is the narrative text when the call succeeded, a string that
\* opens with the failure mark and holds status code and response body after a
\* status outside 200..299, and a string that opens with the failure mark and holds
\* the exception's message after any other exception (network, timeout, body).
C20_BriefingNeverRaises ==
    /\ ~briefResult.raised
    /\ briefPc = "returned" =>
          LET value == briefResult.value
              failed == value # <<>> /\ value[1] = CrossMark
          IN /\ (remote.val.kind = "response" /\ remote.val.status_code \notin 200..299)
                   => /\ failed
                      /\ OccurInOrder(value, <<StatusDigits(remote.val.status_code),
                                                remote.val.text>>, 2)
             /\ (remote.val.kind = "exception")
                   => failed /\ OccurInOrder(value, <<remote.val.message>>, 2)
             /\ (remote.val.kind = "response" /\ remote.val.status_code \in 200..299
                   /\ caught.some)
                   => failed /\ OccurInOrder(value, <<caught.val>>, 2)
             /\ ~caught.some
                   => /\ remote.val.kind = "response"
                      /\ remote.val.json.some
                      /\ value = remote.val.json.val.choices[1]

\* C20 witness: the call has returned a failure string after a 2xx response whose
\* body is no JSON
C20_Witness ==
    /\ briefPc = "returned"
    /\ remote.some /\ remote.val.kind = "response"
    /\ remote.val.status_code = 200
    /\ ~remote.val.json.some
    /\ briefResult.value[1] = CrossMark
    /\ ~briefResult.raised

----------------------------------------------------------------------------
(* C21: session lifecycle of scrape_linkedin_feed *)

\* C21: when scrape_linkedin_feed has returned, the persistent context it opened
\* is closed, whatever path it took (session reused, login succeeded, login
\* failed, challenge timed out, exception in the feed extraction); the profile
\* directory exists from the first statement on, and no step of the call removes it.
C21_ContextClosedOnReturn ==
    /\ [](/\ (liPc = "done" /\ liOutcome = "returned") => context = "closed"
          /\ liPc = "done" => context # "open"
          /\ context # "none" => profileDir = "present")
    /\ [][profileDir = "present" => profileDir' = "present"]_vars

\* a call that had to log in, failed to, and returned with the context closed
C21_Witness ==
    /\ liPc = "done" /\ liOutcome = "returned"
    /\ logged_in = "False" /\ loginCalls = 1
    /\ context = "closed" /\ profileDir = "present"

----------------------------------------------------------------------------
(* C22: the scraper calls of run_newsbot do not overlap *)

\* the number of open contexts on the LinkedIn profile directory
ProfileHolders == Len(SelectSeq(browsers, LAMBDA b : b = "linkedin"))

\* C22: at every moment of a run at most one browser or browser context is open,
\* it belongs to the scraper call run_newsbot is awaiting, and the LinkedIn
\* profile directory is held by at most one context; a scraper call starts only
\* when every browser of the calls before it is closed; a scraper that has
\* returned has left no browser open.
C22_OneBrowserAtATime ==
    /\ [](/\ Len(browsers) <= 1
          /\ ProfileHolders <= 1
          /\ browsers = IF awaiting = "none" THEN <<>> ELSE <<awaiting>>
          /\ runOutcome = "returned" => browsers = <<>>
          /\ webOutcome = "returned" => webBrowser # "open"
          /\ liOutcome = "returned" => context # "open")
    /\ [][scraperCalls' # scraperCalls => browsers = <<>>]_vars

\* the third scraper call of a run is under way, the two before it have returned
C22_Witness ==
    /\ Len(scraperCalls) = 3
    /\ awaiting = scraperCalls[3]
    /\ browsers = <<scraperCalls[3]>>
    /\ scraperCalls[1] # scraperCalls[3]

----------------------------------------------------------------------------
(* C23: the source URL of the feed and forum records *)

\* C23: the url field of every LinkedInPost in posts and of every RedditPost in
\* the posts of scrape_subreddit is a string that is a non-empty absolute URL.
C23_RecordsCarryAbsoluteUrl ==
    /\ \A i \in 1..Len(posts) : IsAbsolute(posts[i].url)
    /\ \A i \in 1..Len(redditPosts) :
          /\ redditPosts[i].url.some
          /\ IsAbsolute(redditPosts[i].url.val)

----------------------------------------------------------------------------
(* C24 and C25: author and body of a WebArticle *)

\* the page has a title and a body: the test of line 157 passes
HasTitleAndBody(page) == PageTitle(page) # <<>> /\ JoinParts(ContentParts(page)) # <<>>

\* the author match is absent, empty, or 100 characters or longer
NoUsableAuthor(page) ==
    \/ ~page.author_elem.some
    \/ page.author_elem.val = <<>>
    \/ Len(page.author_elem.val) >= MaxAuthorLen

\* C24: a page with title and body yields a WebArticle whatever its author match;
\* when the author match is absent, empty or 100 characters or longer the author
\* field is the display name of the descriptor; the author field of an emitted
\* WebArticle is never empty.
C24_AuthorNeverEmpty ==
    artPc = "done" =>
        /\ HasTitleAndBody(artPage) => Len(artOut) = 1
        /\ \A i \in 1..Len(artOut) :
              /\ NoUsableAuthor(artPage) => artOut[i].author = SITE_CONFIGS[artKey].name
              /\ artOut[i].author # <<>>

\* is p a prefix of s
IsPrefix(p, s) == Len(p) <= Len(s) /\ SubSeq(s, 1, Len(p)) = p

\* C25: every fragment kept in content_parts is longer than the 30-character
\* minimum; the content of an emitted WebArticle is at most 2000 characters long
\* and a prefix of the fragments joined with a blank line, and its excerpt is at
\* most 303 characters long.
C25_BodyConstruction ==
    artPc = "done" =>
        /\ \A k \in 1..Len(artParts) : Len(artParts[k]) > MinFragmentLen
        /\ \A i \in 1..Len(artOut) :
              /\ Len(artOut[i].content) <= MaxContentLen
              /\ IsPrefix(artOut[i].content, JoinParts(artParts))
              /\ Len(artOut[i].excerpt) <= ExcerptLen + 3

----------------------------------------------------------------------------
(* C26: the link list of scrape_futurism *)

NoDuplicates(seq) == \A i, j \in 1..Len(seq) : i # j => seq[i] # seq[j]

\* C26: for every listing and every max_articles >= 1 the link list of
\* scrape_futurism holds no URL twice, no page is visited twice, the list holds at
\* most max_articles URLs, and none of them contains "/category/" or "/tag/".
C26_FuturismLinksDistinct ==
    futMax >= 1 =>
        /\ NoDuplicates(futLinks)
        /\ NoDuplicates(futVisited)
        /\ Len(futLinks) <= futMax
        /\ \A i \in 1..Len(futLinks) :
              ~Contains(futLinks[i], CategoryPattern) /\ ~Contains(futLinks[i], TagPattern)

----------------------------------------------------------------------------
(* C27: the verdict of the challenge wait *)

\* C27: login_linkedin never returns True while the current URL still matches the
\* challenge pattern (contains "checkpoint", "security" or "challenge"), whatever
\* else the URL carries.
C27_NoSuccessOnChallengeUrl ==
    (liPc = "login_ret" /\ logged_in = "True") => ~IsChallengeUrl(pageUrl)

----------------------------------------------------------------------------
(* C28: the size of the result of scrape_linkedin_feed *)

\* the item parses without error and has a non-empty body text
Readable(item) ==
    /\ ~item.raises
    /\ item.content_elem.some
    /\ Strip(item.content_elem.val) # <<>>

\* C28: when the queried feed holds at least max_posts readable items, the call
\* returns exactly max_posts posts.
C28_ExactlyMaxPosts ==
    (/\ liPc = "done" /\ liOutcome = "returned" /\ feedQueried
     /\ Len(SelectSeq(post_elements, Readable)) >= max_posts)
        => Len(posts) = max_posts

----------------------------------------------------------------------------
(* C29: calls of context.close() *)

\* C29: in one call of scrape_linkedin_feed context.close() is called at most once.
C29_ClosedAtMostOnce == closeCalls <= 1

----------------------------------------------------------------------------
(* C30: missing LinkedIn credentials and unknown web source keys *)

CallsOf(b) == Len(SelectSeq(scraperCalls, LAMBDA x : x = b))

KnownKeys == SelectSeq(source_keys, LAMBDA key : key \in DOMAIN SITE_CONFIGS)

CredentialsMissing == Enabled("linkedin") /\ ~(email_set /\ password_set)

\* C30: with LinkedIn enabled and the email or the password missing, the LinkedIn
\* scraper is never called and summaries gets no LinkedIn entry, and a run that is
\* not cut short by a failing scraper still calls every enabled source behind
\* LinkedIn; scrape_web_source is called for the known keys only; called with an
\* unknown key, scrape_web_source launches no browser and returns the empty list.
C30_SkippedWithoutCall ==
    /\ CredentialsMissing =>
          /\ CallsOf("linkedin") = 0
          /\ awaiting # "linkedin"
          /\ ~InSummaries("linkedin")
          /\ runOutcome = "returned" =>
                /\ Enabled("futurism") => CallsOf("futurism") = 1
                /\ Enabled("theneuron") => CallsOf("theneuron") = 1
                /\ Enabled("web_sources") => CallsOf("web_sources") = Len(KnownKeys)
    /\ CallsOf("web_sources") <= Len(KnownKeys)
    /\ (webPc # "idle" /\ source_key \notin DOMAIN SITE_CONFIGS) =>
          /\ webBrowser = "none"
          /\ articles = <<>>
          /\ webOutcome # "raised"
          /\ webPc = "done" => webOutcome = "returned"

\* a run without the password that skipped LinkedIn and an unknown web key, called
\* the sources behind LinkedIn and returned
C30_Witness ==
    /\ CredentialsMissing /\ email_set /\ ~password_set
    /\ runOutcome = "returned"
    /\ source_keys = <<"not_configured", "theverge">>
    /\ scraperCalls = <<"futurism", "web_sources">>

====
